---- MODULE Spec2Model ----
(***************************************************************************)
(* A model of the Tornado matcher: Matcher::new compiles a list of rules   *)
(* (validation, per-rule compilation of active rules, sort by priority)    *)
(* and Matcher::process evaluates an event against the compiled rules.     *)
(* Texts are sequences of one-character strings, so that trimming,         *)
(* prefix tests, key parsing and regular-expression extraction are         *)
(* computed rather than assumed.                                           *)
(***************************************************************************)
EXTENDS Integers, Sequences, FiniteSets, TLC

(***************************************************************************)
(* Bounds of the model.                                                    *)
(***************************************************************************)
\* the largest number of rules of a configuration given to Matcher::new
MaxRules == 3
\* priorities of the rules are drawn from 0 .. MaxPriority
MaxPriority == 2
\* the number of MatcherActor workers that share one Matcher
MaxWorkers == 2

(***************************************************************************)
(* Texts.                                                                  *)
(***************************************************************************)
Letters == {"a", "b", "c", "d", "e", "f", "g", "h", "i", "j", "k", "l", "m",
            "n", "o", "p", "q", "r", "s", "t", "u", "v", "w", "x", "y", "z",
            "A", "B", "C", "D", "E", "F", "G", "H", "I", "J", "K", "L", "M",
            "N", "O", "P", "Q", "R", "S", "T", "U", "V", "W", "X", "Y", "Z"}
Digits == {"0", "1", "2", "3", "4", "5", "6", "7", "8", "9"}

\* text[from .. to], the empty text when from > to
Slice(text, from, to) == SubSeq(text, from, to)

StartsWith(text, prefix) ==
    /\ Len(prefix) <= Len(text)
    /\ Slice(text, 1, Len(prefix)) = prefix

EndsWith(text, suffix) ==
    /\ Len(suffix) <= Len(text)
    /\ Slice(text, Len(text) - Len(suffix) + 1, Len(text)) = suffix

Contains(text, part) ==
    \E i \in 1 .. (Len(text) - Len(part) + 1) :
        Slice(text, i, i + Len(part) - 1) = part

RECURSIVE TrimStart(_)
TrimStart(text) ==
    IF text # <<>> /\ Head(text) = " " THEN TrimStart(Tail(text)) ELSE text

RECURSIVE TrimEnd(_)
TrimEnd(text) ==
    IF text # <<>> /\ text[Len(text)] = " "
    THEN TrimEnd(Slice(text, 1, Len(text) - 1))
    ELSE text

\* str::trim
Trim(text) == TrimEnd(TrimStart(text))

(***************************************************************************)
(* Result and Option.                                                      *)
(***************************************************************************)
Ok(v) == [ok |-> TRUE, val |-> v]
Err(e) == [ok |-> FALSE, err |-> e]

\* the ? operator: the value of an Ok result is handed on, an Err is returned
Try(result, F(_)) == IF result.ok THEN F(result.val) ELSE result

None == [t |-> "None"]
Some(v) == [t |-> "Some", v |-> v]
IsSome(o) == o.t # "None"

\* collect::<Result<Vec<_>, _>>: the values, or the first error
CollectResults(results) ==
    IF \E i \in DOMAIN results : ~results[i].ok
    THEN results[CHOOSE i \in DOMAIN results :
                    ~results[i].ok /\ \A j \in 1 .. (i - 1) : results[j].ok]
    ELSE Ok([i \in DOMAIN results |-> results[i].val])

EmptyMap == [k \in {} |-> None]

\* HashMap::insert
MapInsert(map, key, value) ==
    [k \in DOMAIN map \cup {key} |-> IF k = key THEN value ELSE map[k]]

(***************************************************************************)
(* tornado_common_api::Value                                               *)
(***************************************************************************)
Text(s) == [t |-> "Text", v |-> s]
Map(m) == [t |-> "Map", v |-> m]

\* PartialEq of Value
ValueEq(a, b) == a.t = b.t /\ a.v = b.v

\* Value::child
ValueChild(value, key) ==
    IF value.t = "Map" /\ key \in DOMAIN value.v THEN value.v[key] ELSE None

(***************************************************************************)
(* MatcherError                                                            *)
(***************************************************************************)
UnknownAccessorError(accessor) == [kind |-> "UnknownAccessorError", accessor |-> accessor]
NotValidIdOrNameError(message) == [kind |-> "NotValidIdOrNameError", message |-> message]
NotUniqueRuleNameError(name) == [kind |-> "NotUniqueRuleNameError", name |-> name]
NotUniqueRulePriorityError(first, second, priority) ==
    [kind |-> "NotUniqueRulePriorityError", first_rule_name |-> first,
     second_rule_name |-> second, priority |-> priority]
ExtractorBuildFailError(message) == [kind |-> "ExtractorBuildFailError", message |-> message]
OperatorBuildFailError(message) == [kind |-> "OperatorBuildFailError", message |-> message]
MissingExtractedVariableError(variable_name) ==
    [kind |-> "MissingExtractedVariableError", variable_name |-> variable_name]
CreateActionError(action_id, cause) ==
    [kind |-> "CreateActionError", action_id |-> action_id, cause |-> cause]
\* a Rust panic (an out-of-range slice), which is no MatcherError
Panic == [kind |-> "panic"]

(***************************************************************************)
(* accessor: AccessorBuilder                                               *)
(***************************************************************************)
start_delimiter == <<"$", "{">>
end_delimiter == <<"}">>
EVENT_SUFFIX == <<"e", "v", "e", "n", "t">>
CURRENT_RULE_EXTRACTED_VAR_SUFFIX == <<"_", "v", "a", "r", "i", "a", "b", "l", "e", "s", ".">>
EVENT_KEY_PARSE_TRAILING_DELIMITER == "\""

\* IdValidator: an identifier is ^[a-zA-Z_][a-zA-Z0-9_]*$
IsValidId(id) ==
    /\ id # <<>>
    /\ id[1] \in Letters \cup {"_"}
    /\ \A i \in 2 .. Len(id) : id[i] \in Letters \cup Digits \cup {"_"}

\* IdValidator::validate_extracted_var_from_accessor
ValidateExtractedVarFromAccessor(id, accessor, rule_name) ==
    IF IsValidId(id)
    THEN Ok(TRUE)
    ELSE Err(NotValidIdOrNameError([accessor |-> accessor, rule |-> rule_name, id |-> id]))

\* the least element of a nonempty set of numbers
Least(S) == CHOOSE j \in S : \A k \in S : j <= k

\* the position of the first character c of key after position i, 0 if none
NextAt(key, i, c) ==
    IF \E j \in (i + 1) .. Len(key) : key[j] = c
    THEN Least({j \in (i + 1) .. Len(key) : key[j] = c})
    ELSE 0

\* the end of the match of the alternative [^\.]+ that starts at position i
RunEnd(key, i, dot) == IF dot = 0 THEN Len(key) ELSE dot - 1

\* mutant of KeyMatchEndAt: the regular expression without its first
\* alternative, [^\.]+ alone
KeyMatchEndAtRunOnly(key, i, close) ==
    IF key[i] # "." THEN RunEnd(key, i, NextAt(key, i, ".")) ELSE 0

\* the end of the leftmost match of EVENT_KEY_PARSE_REGEX starting exactly at
\* position i of key, 0 when there is none: first the alternative "[^"]+",
\* then the alternative [^\.]+
KeyMatchEndAt(key, i, close) ==
    IF key[i] = "\"" /\ close >= i + 2 THEN close
    ELSE IF key[i] # "." THEN RunEnd(key, i, NextAt(key, i, "."))
    ELSE 0
KeyMatchEnd(key, i) == KeyMatchEndAt(key, i, NextAt(key, i, "\""))

RECURSIVE KeyCaptures(_, _)

\* mutant of KeyCapturesAt: a position without a match gives an empty capture
KeyCapturesAtEmpty(key, i, e) ==
    (IF e = 0 THEN <<<<>>>> ELSE <<Slice(key, i, e)>>)
        \o KeyCaptures(key, IF e = 0 THEN i + 1 ELSE e + 1)

\* Regex::captures_iter of EVENT_KEY_PARSE_REGEX: the matches, left to right
KeyCapturesAt(key, i, e) ==
    (IF e = 0 THEN <<>> ELSE <<Slice(key, i, e)>>)
        \o KeyCaptures(key, IF e = 0 THEN i + 1 ELSE e + 1)
KeyCaptures(key, i) ==
    IF i > Len(key) THEN <<>> ELSE KeyCapturesAt(key, i, KeyMatchEnd(key, i))

\* whether the capture starts and ends with the delimiter
IsQuoted(capture) ==
    /\ capture # <<>>
    /\ capture[1] = EVENT_KEY_PARSE_TRAILING_DELIMITER
    /\ capture[Len(capture)] = EVENT_KEY_PARSE_TRAILING_DELIMITER

\* the closure of parse_event_key applied to one capture
ParseCapture(capture, key, full_accessor, rule_name) ==
    IF IsQuoted(capture) /\ Len(capture) = 1
    THEN Err(Panic)
    ELSE IF \E i \in (IF IsQuoted(capture) THEN 2 .. (Len(capture) - 1)
                                           ELSE 1 .. Len(capture)) :
                capture[i] = EVENT_KEY_PARSE_TRAILING_DELIMITER
    THEN Err(NotValidIdOrNameError([key |-> key, accessor |-> full_accessor,
                                    rule |-> rule_name]))
    ELSE Ok(IF IsQuoted(capture) THEN Slice(capture, 2, Len(capture) - 1) ELSE capture)

ParseCaptures(caps, key, full_accessor, rule_name) ==
    CollectResults([i \in 1 .. Len(caps) |->
                       ParseCapture(caps[i], key, full_accessor, rule_name)])

\* AccessorBuilder::parse_event_key
parse_event_key(key, full_accessor, rule_name) ==
    ParseCaptures(KeyCaptures(key, 1), key, full_accessor, rule_name)

ConstantAccessor(value) == [acc |-> "Constant", value |-> value]
ExtractedVarAccessor(key) == [acc |-> "ExtractedVar", key |-> key]
EventAccessor(keys) == [acc |-> "Event", keys |-> keys]

\* AccessorBuilder::build, the arm of the event accessors; val is the
\* trimmed text between the delimiters, value the trimmed input
BuildEventAccessor(rule_name, value, val) ==
    Try(parse_event_key(Trim(Slice(val, Len(EVENT_SUFFIX) + 1, Len(val))), value, rule_name),
        LAMBDA keys : Ok(EventAccessor(keys)))

\* mutant of BuildExtractedVarAccessor: the id is not validated
BuildExtractedVarAccessorUnvalidated(rule_name, value, key) ==
    Ok(ExtractedVarAccessor(rule_name \o <<".">> \o key))

\* mutant of BuildExtractedVarAccessor: the key is not prefixed with the rule
BuildExtractedVarAccessorUnqualified(rule_name, value, key) ==
    Try(ValidateExtractedVarFromAccessor(key, value, rule_name),
        LAMBDA valid : Ok(ExtractedVarAccessor(key)))

\* AccessorBuilder::build, the arm of the extracted variables, key being the
\* trimmed text after the prefix
BuildExtractedVarAccessor(rule_name, value, key) ==
    Try(ValidateExtractedVarFromAccessor(key, value, rule_name),
        LAMBDA valid : Ok(ExtractedVarAccessor(rule_name \o <<".">> \o key)))

\* mutant of BuildFromPath: every path that starts with the event prefix is
\* taken for an event path, the dot after it being optional
BuildFromPathEventPrefix(rule_name, value, val) ==
    IF StartsWith(val, EVENT_SUFFIX)
    THEN BuildEventAccessor(rule_name, value, val)
    ELSE IF StartsWith(val, CURRENT_RULE_EXTRACTED_VAR_SUFFIX)
    THEN BuildExtractedVarAccessor(rule_name, value,
             Trim(Slice(val, Len(CURRENT_RULE_EXTRACTED_VAR_SUFFIX) + 1, Len(val))))
    ELSE Err(UnknownAccessorError(value))

\* AccessorBuilder::build, the match on the trimmed text between the delimiters
BuildFromPath(rule_name, value, val) ==
    IF StartsWith(val, EVENT_SUFFIX \o <<".">>) \/ val = EVENT_SUFFIX
    THEN BuildEventAccessor(rule_name, value, val)
    ELSE IF StartsWith(val, CURRENT_RULE_EXTRACTED_VAR_SUFFIX)
    THEN BuildExtractedVarAccessor(rule_name, value,
             Trim(Slice(val, Len(CURRENT_RULE_EXTRACTED_VAR_SUFFIX) + 1, Len(val))))
    ELSE Err(UnknownAccessorError(value))

\* AccessorBuilder::build, the match on the trimmed input
BuildFromTrimmed(rule_name, input, value) ==
    IF StartsWith(value, start_delimiter) /\ EndsWith(value, end_delimiter)
    THEN BuildFromPath(rule_name, value,
             Trim(Slice(value, Len(start_delimiter) + 1, Len(value) - Len(end_delimiter))))
    ELSE Ok(ConstantAccessor(Text(input)))

\* AccessorBuilder::build
AccessorBuild(rule_name, input) == BuildFromTrimmed(rule_name, input, Trim(input))

\* mutant of EventLookup: the loop ends after the first key
EventLookupOneKey(value, keys, count) ==
    IF count <= Len(keys) /\ IsSome(value) THEN ValueChild(value, keys[count]) ELSE value

\* Accessor::get, the chain of child lookups of the Event variant
RECURSIVE EventLookup(_, _, _)
EventLookup(value, keys, count) ==
    IF count <= Len(keys) /\ IsSome(value)
    THEN EventLookup(ValueChild(value, keys[count]), keys, count + 1)
    ELSE value

\* Accessor::get
AccessorGet(accessor, event) ==
    CASE accessor.acc = "Constant" -> accessor.value
      [] accessor.acc = "ExtractedVar" ->
            IF accessor.key \in DOMAIN event.extracted_vars
            THEN event.extracted_vars[accessor.key]
            ELSE None
      [] accessor.acc = "Event" -> EventLookup(event.event, accessor.keys, 1)

(***************************************************************************)
(* The regular expressions of the configuration.  The model covers the     *)
(* patterns made of one character class repeated, [chars]+ ; every other   *)
(* pattern text is rejected as invalid.                                    *)
(***************************************************************************)
IsClassPattern(pattern) ==
    /\ Len(pattern) >= 4
    /\ pattern[1] = "["
    /\ pattern[Len(pattern) - 1] = "]"
    /\ pattern[Len(pattern)] = "+"
    /\ \A i \in 2 .. (Len(pattern) - 2) : pattern[i] \in Letters \cup Digits

\* Regex::new
RegexCompile(pattern) ==
    IF IsClassPattern(pattern)
    THEN Ok([class |-> {pattern[i] : i \in 2 .. (Len(pattern) - 2)}])
    ELSE Err(OperatorBuildFailError(pattern))

\* the end of the maximal run of characters of the class that starts at from
RunOfClass(regex, text, from) ==
    IF \E j \in from .. Len(text) : text[j] \notin regex.class
    THEN Least({j \in from .. Len(text) : text[j] \notin regex.class}) - 1
    ELSE Len(text)

MatchFrom(regex, text, from) == Text(Slice(text, from, RunOfClass(regex, text, from)))

\* Regex::captures, group 0 of the leftmost match: the first maximal run of
\* characters of the class; None when no character of the text is in the class
RegexFind(regex, text) ==
    IF \E i \in 1 .. Len(text) : text[i] \in regex.class
    THEN MatchFrom(regex, text, Least({i \in 1 .. Len(text) : text[i] \in regex.class}))
    ELSE None

(***************************************************************************)
(* operator: OperatorBuilder and the operators                             *)
(***************************************************************************)
RECURSIVE OperatorBuild(_, _)
\* OperatorBuilder::build of the operators of an And or an Or
OperatorBuildAll(rule_name, operators) ==
    CollectResults([i \in 1 .. Len(operators) |-> OperatorBuild(rule_name, operators[i])])

\* OperatorBuilder::build
OperatorBuild(rule_name, config) ==
    CASE config.op = "Equal" ->
            Try(AccessorBuild(rule_name, config.first), LAMBDA first :
            Try(AccessorBuild(rule_name, config.second), LAMBDA second :
                Ok([op |-> "equal", first |-> first, second |-> second])))
      [] config.op \in {"And", "Or"} ->
            Try(OperatorBuildAll(rule_name, config.operators), LAMBDA operators :
                Ok([op |-> IF config.op = "And" THEN "and" ELSE "or",
                    operators |-> operators]))
      [] config.op = "Regex" ->
            Try(AccessorBuild(rule_name, config.target), LAMBDA target :
            Try(RegexCompile(config.regex), LAMBDA regex :
                Ok([op |-> "regex", regex |-> regex, target |-> target])))

\* Equal::evaluate on the values of its two accessors
EqualValues(first, second) == IsSome(first) /\ IsSome(second) /\ ValueEq(first, second)

\* Regex::evaluate on the value of its target
RegexMatches(regex, target) ==
    IsSome(target) /\ target.t = "Text" /\ IsSome(RegexFind(regex, target.v))

RECURSIVE OperatorEvaluate(_, _)
\* the operators of an And or an Or that evaluate to true
TrueOperators(operators, event) ==
    {i \in 1 .. Len(operators) : OperatorEvaluate(operators[i], event)}

\* Operator::evaluate
OperatorEvaluate(operator, event) ==
    CASE operator.op = "equal" ->
            EqualValues(AccessorGet(operator.first, event),
                        AccessorGet(operator.second, event))
      [] operator.op \in {"and", "or"} ->
            IF operator.op = "and"
            THEN TrueOperators(operator.operators, event) = 1 .. Len(operator.operators)
            ELSE TrueOperators(operator.operators, event) # {}
      [] operator.op = "regex" ->
            RegexMatches(operator.regex, AccessorGet(operator.target, event))

(***************************************************************************)
(* matcher::extractor: the named regular-expression extractors of a rule   *)
(***************************************************************************)
Alphabet == <<"_", "0", "1", "2", "3", "4", "5", "6", "7", "8", "9",
              "a", "b", "c", "d", "e", "f", "g", "h", "i", "j", "k", "l", "m",
              "n", "o", "p", "q", "r", "s", "t", "u", "v", "w", "x", "y", "z">>
CharRank(c) ==
    IF \E i \in 1 .. Len(Alphabet) : Alphabet[i] = c
    THEN CHOOSE i \in 1 .. Len(Alphabet) : Alphabet[i] = c
    ELSE 0

\* the order of String: a is before b
RECURSIVE TextLess(_, _)
TextLess(a, b) ==
    IF b = <<>> \/ a = <<>> \/ Head(a) # Head(b)
    THEN b # <<>> /\ (a = <<>> \/ CharRank(Head(a)) < CharRank(Head(b)))
    ELSE TextLess(Tail(a), Tail(b))

\* the texts of a set, in ascending order
RECURSIVE SortedTexts(_)
SortedFrom(texts, least) == <<least>> \o SortedTexts(texts \ {least})
SortedTexts(texts) ==
    IF texts = {} THEN <<>>
    ELSE SortedFrom(texts, CHOOSE a \in texts : \A b \in texts \ {a} : TextLess(a, b))

\* the compiled extractor of the variable key
ExtractorBuildOne(rule_name, key, extractor) ==
    Try(AccessorBuild(rule_name, extractor.from), LAMBDA from :
    Try(RegexCompile(extractor.regex.regex), LAMBDA regex :
        Ok([key |-> key, target |-> from, regex |-> regex,
            group_match_idx |-> extractor.regex.group_match_idx])))

ExtractorBuildKeys(rule_name, with, keys) ==
    CollectResults([i \in 1 .. Len(keys) |->
                       ExtractorBuildOne(rule_name, keys[i], with[keys[i]])])

\* MatcherExtractorBuilder::build: one compiled extractor per variable of
\* with, in the order of the variable names
MatcherExtractorBuild(rule_name, with) ==
    ExtractorBuildKeys(rule_name, with, SortedTexts(DOMAIN with))

\* the group of the leftmost match of the extractor in the value of its target
ExtractFromValue(extractor, value) ==
    IF IsSome(value) /\ value.t = "Text" /\ extractor.group_match_idx = 0
    THEN RegexFind(extractor.regex, value.v)
    ELSE None

\* one extractor applied to the event: the text of the group, or None
ValueExtractorExtract(extractor, event) ==
    ExtractFromValue(extractor, AccessorGet(extractor.target, event))

\* MatcherExtractor::extract_all from the i-th extractor on; vars holds the
\* variables extracted so far, which the later extractors of the rule see
\* under their qualified names
RECURSIVE ExtractFrom(_, _, _, _, _)
ExtractStep(rule_name, extractors, i, event, vars, value) ==
    IF ~IsSome(value)
    THEN Err(MissingExtractedVariableError(extractors[i].key))
    ELSE ExtractFrom(rule_name, extractors, i + 1,
             [event EXCEPT !.extracted_vars =
                 MapInsert(@, rule_name \o <<".">> \o extractors[i].key, value)],
             MapInsert(vars, extractors[i].key, value))
ExtractFrom(rule_name, extractors, i, event, vars) ==
    IF i > Len(extractors) THEN Ok(vars)
    ELSE ExtractStep(rule_name, extractors, i, event, vars,
                     ValueExtractorExtract(extractors[i], event))

\* MatcherExtractor::extract_all
ExtractAll(rule_name, extractors, event) ==
    ExtractFrom(rule_name, extractors, 1, event, EmptyMap)

(***************************************************************************)
(* matcher::action: the action templates of a rule                         *)
(***************************************************************************)
\* the first error among the results of a map, in the order of the keys, or
\* Ok of the map of values
CollectMap(results) ==
    IF \E k \in DOMAIN results : ~results[k].ok
    THEN results[SortedTexts({k \in DOMAIN results : ~results[k].ok})[1]]
    ELSE Ok([k \in DOMAIN results |-> results[k].val])

\* MatcherActionBuilder::build of one action: every text of the payload
\* becomes an accessor
MatcherActionBuildOne(rule_name, action) ==
    Try(CollectMap([k \in DOMAIN action.payload |->
                       AccessorBuild(rule_name, action.payload[k])]),
        LAMBDA payload : Ok([id |-> action.id, payload |-> payload]))

\* MatcherActionBuilder::build
MatcherActionBuild(rule_name, actions) ==
    CollectResults([i \in 1 .. Len(actions) |->
                       MatcherActionBuildOne(rule_name, actions[i])])

\* the value of one entry of the payload, an error when there is none
Resolved(action, key, value) ==
    IF IsSome(value) THEN Ok(value) ELSE Err(CreateActionError(action.id, key))

\* MatcherAction::execute: the action with every accessor of its payload
\* resolved against the event, an error when one of them yields no value
MatcherActionExecute(action, event) ==
    Try(CollectMap([k \in DOMAIN action.payload |->
                       Resolved(action, k, AccessorGet(action.payload[k], event))]),
        LAMBDA payload : Ok([id |-> action.id, payload |-> payload]))

(***************************************************************************)
(* validator: RuleValidator                                                *)
(***************************************************************************)
\* RuleValidator::validate: the names of the rule and of its variables are
\* identifiers
ValidateRule(rule) ==
    IF ~IsValidId(rule.name)
    THEN Err(NotValidIdOrNameError([rule |-> rule.name]))
    ELSE IF \E k \in DOMAIN rule.constraint.with : ~IsValidId(k)
    THEN Err(NotValidIdOrNameError([rule |-> rule.name, variable |-> TRUE]))
    ELSE Ok(TRUE)

\* the rules before the i-th that have its priority
SamePriority(rules, i) == {j \in 1 .. (i - 1) : rules[j].priority = rules[i].priority}

\* the name and then the priority of the i-th rule checked against the rules
\* before it
CheckUnique(rules, i) ==
    IF \E j \in 1 .. (i - 1) : rules[j].name = rules[i].name
    THEN Err(NotUniqueRuleNameError(rules[i].name))
    ELSE IF SamePriority(rules, i) # {}
    THEN Err(NotUniqueRulePriorityError(rules[Least(SamePriority(rules, i))].name,
                                        rules[i].name, rules[i].priority))
    ELSE Ok(TRUE)

\* RuleValidator::validate_all: each rule in turn is validated and checked
\* against the rules before it, and the first error is returned
ValidateAll(rules) ==
    Try(CollectResults([i \in 1 .. Len(rules) |->
                           Try(ValidateRule(rules[i]), LAMBDA valid : CheckUnique(rules, i))]),
        LAMBDA all : Ok(TRUE))

(***************************************************************************)
(* matcher: Matcher::new                                                   *)
(***************************************************************************)
\* the MatcherRule compiled from one rule of the configuration
BuildMatcherRule(rule) ==
    Try(OperatorBuild(rule.name, rule.constraint.where_operator), LAMBDA operator :
    Try(MatcherExtractorBuild(rule.name, rule.constraint.with), LAMBDA extractor :
    Try(MatcherActionBuild(rule.name, rule.actions), LAMBDA actions :
        Ok([name |-> rule.name,
            priority |-> rule.priority,
            do_continue |-> rule.do_continue,
            operator |-> operator,
            extractor |-> extractor,
            actions |-> actions]))))

\* mutants of IsCompiled: the check of active is missing, or inverted
IsCompiledAlways(rule) == TRUE
IsCompiledInactive(rule) == ~rule.active

\* whether the loop of Matcher::new compiles the rule
IsCompiled(rule) == rule.active

\* mutant of BuildRules: a rule that a builder rejects is left out and the
\* other rules are kept
IsOkResult(result) == result.ok
OkValues(results) ==
    [i \in 1 .. Len(SelectSeq(results, IsOkResult)) |-> SelectSeq(results, IsOkResult)[i].val]
BuildRulesSkippingErrors(rules) ==
    Ok(OkValues([i \in 1 .. Len(SelectSeq(rules, IsCompiled)) |->
                    BuildMatcherRule(SelectSeq(rules, IsCompiled)[i])]))

\* the loop of Matcher::new: the active rules compiled in the order given,
\* or the first error of a builder
BuildRules(rules) ==
    CollectResults([i \in 1 .. Len(SelectSeq(rules, IsCompiled)) |->
                       BuildMatcherRule(SelectSeq(rules, IsCompiled)[i])])

\* mutants of SortsAfter: the sort is missing, or descending
SortsAfterNever(a, b) == FALSE
SortsAfterDescending(a, b) == a.priority < b.priority

\* the comparison of the sort of Matcher::new: a goes after b
SortsAfter(a, b) == a.priority > b.priority

\* one rule inserted in a sorted list, before the first rule that goes after it
InsertSorted(sorted, rule) ==
    IF \E i \in 1 .. Len(sorted) : SortsAfter(sorted[i], rule)
    THEN [i \in 1 .. (Len(sorted) + 1) |->
             IF i < Least({j \in 1 .. Len(sorted) : SortsAfter(sorted[j], rule)}) THEN sorted[i]
             ELSE IF i = Least({j \in 1 .. Len(sorted) : SortsAfter(sorted[j], rule)}) THEN rule
             ELSE sorted[i - 1]]
    ELSE Append(sorted, rule)

\* Vec::sort_by with the comparison of the priorities: a stable sort
RECURSIVE SortRules(_)
SortRules(rules) ==
    IF rules = <<>> THEN <<>>
    ELSE InsertSorted(SortRules(Slice(rules, 1, Len(rules) - 1)), rules[Len(rules)])

\* the Matcher of the compiled rules
NewMatcher(processed_rules) == Ok([rules |-> SortRules(processed_rules)])

\* mutant of NewValidated: the result of validate_all is dropped
NewUnvalidated(rules, validation) == Try(BuildRules(rules), NewMatcher)

\* Matcher::new, given the result of RuleValidator::validate_all
NewValidated(rules, validation) ==
    Try(validation, LAMBDA valid : Try(BuildRules(rules), NewMatcher))

\* Matcher::new
MatcherNew(rules) == NewValidated(rules, ValidateAll(rules))

(***************************************************************************)
(* matcher: Matcher::process                                               *)
(***************************************************************************)
\* ProcessedEvent::new
ProcessedEventNew(event) ==
    [event |-> event, extracted_vars |-> EmptyMap, matched |-> EmptyMap]

\* the ProcessedRule that each iteration of process starts from
NewProcessedRule ==
    [status |-> "NotMatched", extracted_vars |-> EmptyMap, actions |-> <<>>,
     message |-> None]

\* Matcher::process_actions from the i-th action on: the rendered actions are
\* pushed one by one, and the first error ends the loop
RECURSIVE ProcessActionsFrom(_, _, _, _)
PushAction(pe, processed_rule, actions, i, rendered) ==
    IF rendered.ok
    THEN ProcessActionsFrom(pe, [processed_rule EXCEPT !.actions = Append(@, rendered.val)],
                            actions, i + 1)
    ELSE [result |-> rendered, processed_rule |-> processed_rule]
ProcessActionsFrom(pe, processed_rule, actions, i) ==
    IF i > Len(actions) THEN [result |-> Ok(TRUE), processed_rule |-> processed_rule]
    ELSE PushAction(pe, processed_rule, actions, i, MatcherActionExecute(actions[i], pe))

\* Matcher::process_actions
ProcessActions(pe, processed_rule, actions) ==
    ProcessActionsFrom(pe, processed_rule, actions, 1)

\* the messages of process: the text of the format string, and the rule name
\* and the error that are written into it
ActionsMessage(rule, e) ==
    [text |-> "The event matches the rule and all variables are extracted correctly; however, some actions cannot be resolved",
     rule |-> rule.name, error |-> e]
ExtractMessage(rule, e) ==
    [text |-> "The event matches the rule but some variables cannot be extracted",
     rule |-> rule.name, error |-> e]

\* mutant of AfterActions: the status is set before the result is looked at
AfterActionsAlwaysMatched(rule, done) == [done.processed_rule EXCEPT !.status = "Matched"]

\* the match of process on the result of process_actions
AfterActions(rule, done) ==
    IF done.result.ok
    THEN [done.processed_rule EXCEPT !.status = "Matched"]
    ELSE [done.processed_rule EXCEPT
             !.status = "PartiallyMatched",
             !.message = Some(ActionsMessage(rule, done.result.err))]

\* mutant of AfterExtract: a failed extraction leaves the rule as it started
AfterExtractSilent(rule, pe, extracted) ==
    IF extracted.ok
    THEN AfterActions(rule,
             ProcessActions(pe, [NewProcessedRule EXCEPT !.extracted_vars = extracted.val],
                            rule.actions))
    ELSE NewProcessedRule

\* mutant of AfterExtract: the extracted variables are not assigned to the rule
AfterExtractUnassigned(rule, pe, extracted) ==
    IF extracted.ok
    THEN AfterActions(rule, ProcessActions(pe, NewProcessedRule, rule.actions))
    ELSE [NewProcessedRule EXCEPT
             !.status = "PartiallyMatched",
             !.message = Some(ExtractMessage(rule, extracted.err))]

\* the match of process on the result of extract_all
AfterExtract(rule, pe, extracted) ==
    IF extracted.ok
    THEN AfterActions(rule,
             ProcessActions(pe, [NewProcessedRule EXCEPT !.extracted_vars = extracted.val],
                            rule.actions))
    ELSE [NewProcessedRule EXCEPT
             !.status = "PartiallyMatched",
             !.message = Some(ExtractMessage(rule, extracted.err))]

\* the body of the loop of process for one rule: the processed rule it inserts
RuleOutcome(rule, pe) ==
    IF OperatorEvaluate(rule.operator, pe)
    THEN AfterExtract(rule, pe, ExtractAll(rule.name, rule.extractor, pe))
    ELSE NewProcessedRule

\* mutants of StopsAt: the break is missing, or does not look at the status
StopsAtNever(rule, processed_rule) == FALSE
StopsAtNoContinue(rule, processed_rule) == ~rule.do_continue

\* mutant of StopsAt: a rule that failed ends the loop as a Matched one does
StopsAtFailure(rule, processed_rule) ==
    processed_rule.status \in {"Matched", "PartiallyMatched"} /\ ~rule.do_continue

\* whether the loop of process ends with the rule, given its processed rule
StopsAt(rule, processed_rule) ==
    processed_rule.status = "Matched" /\ ~rule.do_continue

(***************************************************************************)
(* The configurations and the events.                                      *)
(***************************************************************************)
T_event_type == <<"$", "{", "e", "v", "e", "n", "t", ".", "t", "y", "p", "e", "}">>
T_event_body == <<"$", "{", "e", "v", "e", "n", "t", ".", "p", "a", "y", "l", "o", "a", "d",
                  ".", "b", "o", "d", "y", "}">>
T_email == <<"e", "m", "a", "i", "l">>
T_sms == <<"s", "m", "s">>
T_hello == <<"h", "e", "l", "l", "o">>
K_type == <<"t", "y", "p", "e">>
K_payload == <<"p", "a", "y", "l", "o", "a", "d">>
K_body == <<"b", "o", "d", "y">>
K_to == <<"t", "o">>
V_temp == <<"t", "e", "m", "p">>
RE_ai == <<"[", "a", "i", "]", "+">>
RE_z == <<"[", "z", "]", "+">>
RE_em == <<"[", "e", "m", "]", "+">>

\* the name of the i-th rule: r1, r2, ...
RuleName(i) == <<"r", Alphabet[i + 2]>>

\* Event as the Value the accessors read
EventValue(event_type, payload) ==
    Map([k \in {K_type, K_payload} |->
            IF k = K_type THEN Text(event_type) ELSE Map(payload)])

Events ==
    {EventValue(T_email, EmptyMap),
     EventValue(T_email, [k \in {K_body} |-> Text(T_hello)]),
     EventValue(T_sms, EmptyMap)}

EqualType(t) == [op |-> "Equal", first |-> T_event_type, second |-> t]
Extract(regex) ==
    [k \in {V_temp} |->
        [from |-> T_event_type, regex |-> [regex |-> regex, group_match_idx |-> 0]]]
ActionTo == [id |-> "notify", payload |-> [k \in {K_to} |-> T_event_type]]
ActionBody == [id |-> "archive", payload |-> [k \in {K_body} |-> T_event_body]]

\* what a rule asks of an event: its constraint and its actions
Bodies ==
    {[constraint |-> [where_operator |-> EqualType(T_email), with |-> EmptyMap],
      actions |-> <<>>],
     [constraint |-> [where_operator |-> EqualType(T_sms), with |-> EmptyMap],
      actions |-> <<ActionTo>>],
     [constraint |-> [where_operator |-> EqualType(T_email), with |-> Extract(RE_em)],
      actions |-> <<ActionTo>>],
     [constraint |-> [where_operator |-> EqualType(T_email), with |-> Extract(RE_z)],
      actions |-> <<ActionTo>>],
     [constraint |-> [where_operator |-> EqualType(T_email), with |-> Extract(RE_ai)],
      actions |-> <<ActionTo, ActionBody>>]}

Rule(name, priority, do_continue, active, body) ==
    [name |-> name, priority |-> priority, do_continue |-> do_continue,
     active |-> active, constraint |-> body.constraint, actions |-> body.actions]

\* the sequences of 1 .. MaxRules elements of a set
SeqsUpTo(S) == UNION {[1 .. n -> S] : n \in 1 .. MaxRules}

\* configurations that differ in what the rules ask: the i-th rule is named
\* r<i> and has priority i - 1
BodyChoices == [do_continue : BOOLEAN, body : Bodies]
ProcessConfigs ==
    {[i \in DOMAIN c |-> Rule(RuleName(i), i - 1, c[i].do_continue, TRUE, c[i].body)] :
        c \in SeqsUpTo(BodyChoices)}

\* configurations that differ in the names, the priorities and the active
\* flags of the rules; every rule asks for the type email and continues
PlainBody == [constraint |-> [where_operator |-> EqualType(T_email), with |-> EmptyMap],
              actions |-> <<>>]
HeadChoices == [name : {RuleName(i) : i \in 1 .. 3}, priority : 0 .. MaxPriority,
                active : BOOLEAN]
BuildConfigs ==
    {[i \in DOMAIN c |->
         Rule(c[i].name, c[i].priority, TRUE, c[i].active, PlainBody)] :
        c \in SeqsUpTo(HeadChoices)}

(***************************************************************************)
(* The state machine.                                                      *)
(***************************************************************************)
VARIABLES
    config,          \* the rules given to Matcher::new
    built,           \* the result of Matcher::new
    pc,              \* "new", "failed", "ready", "process" or "returned"
    processed_event, \* the ProcessedEvent of the running or last call of process
    position,        \* the index in matcher.rules of the next rule of the loop
    evaluated,       \* the names of the rules whose operator the call evaluated
    calls,           \* per MatcherActor worker, the call of process it runs
    input,           \* the arguments of a function of the accessor module
    output,          \* what that function returned
    value,           \* what Accessor::get returned for the accessor in output
    sent             \* the messages handed to other actors with do_send, in order

vars == <<config, built, pc, processed_event, position, evaluated, calls,
          input, output, value, sent>>

\* the variables of a call of a function of the accessor module
applied == <<input, output, value>>

NotBuilt == Err([kind |-> "NotBuilt"])

\* the MatcherActor workers that hold the same Arc<Matcher>
Workers == 1 .. MaxWorkers

\* a worker that has not handled a message yet
IdleCall ==
    [pc |-> "idle", processed_event |-> ProcessedEventNew(Map(EmptyMap)), position |-> 0]

InitWith(configs) ==
    /\ config \in configs
    /\ built = NotBuilt
    /\ pc = "new"
    /\ processed_event = ProcessedEventNew(Map(EmptyMap))
    /\ position = 0
    /\ evaluated = <<>>
    /\ calls = [w \in Workers |-> IdleCall]
    /\ sent = <<>>
    /\ input = <<>>
    /\ output = NotBuilt
    /\ value = None

Init == InitWith(ProcessConfigs)
InitBuild == InitWith(BuildConfigs)

\* Matcher::new(config) returns
Returned(result) ==
    /\ built' = result
    /\ pc' = IF result.ok THEN "ready" ELSE "failed"

\* Matcher::new(config)
New ==
    /\ pc = "new"
    /\ Returned(MatcherNew(config))
    /\ UNCHANGED <<config, processed_event, position, evaluated, calls>>
    /\ UNCHANGED applied
    /\ UNCHANGED sent

\* matcher.process(event) is called: the ProcessedEvent is created
ProcessBegin ==
    /\ pc \in {"ready", "returned"}
    /\ \E event \in Events : processed_event' = ProcessedEventNew(event)
    /\ position' = 1
    /\ evaluated' = <<>>
    /\ pc' = "process"
    /\ UNCHANGED <<config, built, calls>>
    /\ UNCHANGED applied
    /\ UNCHANGED sent

\* mutant of Inserted: a rule that did not match is left out of the result
InsertedUnlessNotMatched(rule, processed_rule) ==
    /\ evaluated' = Append(evaluated, rule.name)
    /\ processed_event' =
           IF processed_rule.status = "NotMatched" THEN processed_event
           ELSE [processed_event EXCEPT !.matched = MapInsert(@, rule.name, processed_rule)]
    /\ IF StopsAt(rule, processed_rule)
       THEN pc' = "returned" /\ position' = position
       ELSE pc' = pc /\ position' = position + 1

\* the end of one iteration of process: the processed rule is inserted, and
\* the loop goes on or breaks
Inserted(rule, processed_rule) ==
    /\ evaluated' = Append(evaluated, rule.name)
    /\ processed_event' =
           [processed_event EXCEPT !.matched = MapInsert(@, rule.name, processed_rule)]
    /\ IF StopsAt(rule, processed_rule)
       THEN pc' = "returned" /\ position' = position
       ELSE pc' = pc /\ position' = position + 1

\* one iteration of the loop of process
ProcessRule ==
    /\ pc = "process"
    /\ position <= Len(built.val.rules)
    /\ Inserted(built.val.rules[position],
                RuleOutcome(built.val.rules[position], processed_event))
    /\ UNCHANGED <<config, built, calls>>
    /\ UNCHANGED applied
    /\ UNCHANGED sent

\* the loop of process is over: the ProcessedEvent is returned
ProcessEnd ==
    /\ pc = "process"
    /\ position > Len(built.val.rules)
    /\ pc' = "returned"
    /\ UNCHANGED <<config, built, processed_event, position, evaluated, calls>>
    /\ UNCHANGED applied
    /\ UNCHANGED sent

Next == New \/ ProcessBegin \/ ProcessRule \/ ProcessEnd

Spec == Init /\ [][Next]_vars
SpecBuild == InitBuild /\ [][Next]_vars

(***************************************************************************)
(* Rules whose extractors read the variables of the same rule.             *)
(***************************************************************************)
V_a == <<"a">>
V_b == <<"b">>
RE_i == <<"[", "i", "]", "+">>

\* the accessor text ${_variables.<name>}
T_variable(name) ==
    <<"$", "{", "_", "v", "a", "r", "i", "a", "b", "l", "e", "s", ".">> \o name \o <<"}">>

\* with: earlier captures [ai]+ of event.type, later captures [i]+ of
\* ${_variables.<earlier>}
ExtractChain(earlier, later) ==
    [k \in {earlier, later} |->
        IF k = earlier
        THEN [from |-> T_event_type, regex |-> [regex |-> RE_ai, group_match_idx |-> 0]]
        ELSE [from |-> T_variable(earlier),
              regex |-> [regex |-> RE_i, group_match_idx |-> 0]]]

ChainBodies ==
    {[constraint |-> [where_operator |-> EqualType(T_email),
                      with |-> ExtractChain(V_a, V_b)],
      actions |-> <<>>],
     [constraint |-> [where_operator |-> EqualType(T_email),
                      with |-> ExtractChain(V_b, V_a)],
      actions |-> <<>>],
     [constraint |-> [where_operator |-> EqualType(T_email), with |-> Extract(RE_em)],
      actions |-> <<ActionTo>>]}
ChainConfigs ==
    {[i \in DOMAIN c |-> Rule(RuleName(i), i - 1, c[i].do_continue, TRUE, c[i].body)] :
        c \in SeqsUpTo([do_continue : BOOLEAN, body : ChainBodies])}

InitChain == InitWith(ChainConfigs)
SpecChain == InitChain /\ [][Next]_vars

(***************************************************************************)
(* MatcherActor workers: several calls of process on one shared Matcher.   *)
(***************************************************************************)
\* rules for the workers: one that matches the type sms, one that matches the
\* type email, extracts a variable and has an action that needs the body
WorkerBodies ==
    {[constraint |-> [where_operator |-> EqualType(T_sms), with |-> EmptyMap],
      actions |-> <<ActionTo>>],
     [constraint |-> [where_operator |-> EqualType(T_email), with |-> Extract(RE_ai)],
      actions |-> <<ActionTo, ActionBody>>]}
WorkerConfigs ==
    {[i \in DOMAIN c |-> Rule(RuleName(i), i - 1, c[i].do_continue, TRUE, c[i].body)] :
        c \in SeqsUpTo([do_continue : BOOLEAN, body : WorkerBodies])}
WorkerEvents ==
    {EventValue(T_email, [k \in {K_body} |-> Text(T_hello)]), EventValue(T_sms, EmptyMap)}

InitWorkers == InitWith(WorkerConfigs)

\* MatcherActor::handle of worker w calls self.matcher.process(msg.event)
WorkerProcessBegin(w) ==
    /\ pc = "ready"
    /\ calls[w].pc \in {"idle", "returned"}
    /\ \E event \in WorkerEvents :
           calls' = [calls EXCEPT ![w] = [pc |-> "process",
                                          processed_event |-> ProcessedEventNew(event),
                                          position |-> 1]]
    /\ UNCHANGED <<config, built, pc, processed_event, position, evaluated>>
    /\ UNCHANGED applied
    /\ UNCHANGED sent

\* mutant of WorkerInserted: the map of processed rules is shared by the
\* calls that are running
WorkerInsertedShared(w, rule, processed_rule) ==
    calls' = [v \in Workers |->
                 IF calls[v].pc # "process" THEN calls[v]
                 ELSE [pc |-> IF v = w /\ StopsAt(rule, processed_rule)
                              THEN "returned" ELSE "process",
                       processed_event |->
                           [calls[v].processed_event EXCEPT
                               !.matched = MapInsert(@, rule.name, processed_rule)],
                       position |-> IF v = w /\ ~StopsAt(rule, processed_rule)
                                    THEN calls[v].position + 1 ELSE calls[v].position]]

\* the end of one iteration of the loop in the call of worker w
WorkerInserted(w, rule, processed_rule) ==
    calls' = [calls EXCEPT ![w] =
                 [pc |-> IF StopsAt(rule, processed_rule) THEN "returned" ELSE "process",
                  processed_event |->
                      [calls[w].processed_event EXCEPT
                          !.matched = MapInsert(@, rule.name, processed_rule)],
                  position |-> IF StopsAt(rule, processed_rule)
                               THEN calls[w].position ELSE calls[w].position + 1]]

\* one iteration of the loop of process in the call of worker w
WorkerProcessRule(w) ==
    /\ calls[w].pc = "process"
    /\ calls[w].position <= Len(built.val.rules)
    /\ WorkerInserted(w, built.val.rules[calls[w].position],
                      RuleOutcome(built.val.rules[calls[w].position],
                                  calls[w].processed_event))
    /\ UNCHANGED <<config, built, pc, processed_event, position, evaluated>>
    /\ UNCHANGED applied
    /\ UNCHANGED sent

\* the call of worker w returns its ProcessedEvent
WorkerProcessEnd(w) ==
    /\ calls[w].pc = "process"
    /\ calls[w].position > Len(built.val.rules)
    /\ calls' = [calls EXCEPT ![w].pc = "returned"]
    /\ UNCHANGED <<config, built, pc, processed_event, position, evaluated>>
    /\ UNCHANGED applied
    /\ UNCHANGED sent

NextWorkers ==
    \/ New
    \/ \E w \in Workers : WorkerProcessBegin(w)
    \/ \E w \in Workers : WorkerProcessRule(w)
    \/ \E w \in Workers : WorkerProcessEnd(w)

SpecWorkers == InitWorkers /\ [][NextWorkers]_vars

(***************************************************************************)
(* Properties.                                                             *)
(***************************************************************************)
Range(f) == {f[i] : i \in DOMAIN f}
\* the first position of x in seq
PosIn(seq, x) == Least({i \in DOMAIN seq : seq[i] = x})
\* the rules of the Matcher that Matcher::new returned
Compiled == built.val.rules
\* the result of the running or last call of process
Matched == processed_event.matched
InCall == pc \in {"process", "returned"}
Reported(name) == name \in DOMAIN Matched
Evaluated(name) == name \in Range(evaluated)
\* the compiled rule at position i ended Matched with do_continue == false
StoppedAt(i) ==
    /\ Reported(Compiled[i].name)
    /\ Matched[Compiled[i].name].status = "Matched"
    /\ ~Compiled[i].do_continue
DupName == \E i, j \in DOMAIN config : i < j /\ config[i].name = config[j].name
DupPriority == \E i, j \in DOMAIN config : i < j /\ config[i].priority = config[j].priority

\* C1: short-circuit.  Once process has evaluated a rule whose outcome is
\* Matched and whose do_continue is false, the call has returned, the rule is
\* in the result with status Matched, and no rule after it in the evaluation
\* order was evaluated or has an entry in the result.
C1_ShortCircuit ==
    InCall =>
        \A i \in DOMAIN Compiled :
            ( /\ Evaluated(Compiled[i].name)
              /\ ~Compiled[i].do_continue
              /\ RuleOutcome(Compiled[i], processed_event).status = "Matched" )
            => /\ pc = "returned"
               /\ StoppedAt(i)
               /\ \A j \in (i + 1) .. Len(Compiled) :
                      ~Evaluated(Compiled[j].name) /\ ~Reported(Compiled[j].name)

\* a call returned at a Matched rule with do_continue == false that has rules after it
C1_Witness ==
    /\ pc = "returned"
    /\ position < Len(Compiled)
    /\ StoppedAt(position)
    /\ evaluated = [k \in 1 .. position |-> Compiled[k].name]

\* the compiled rule at position i has do_continue == false and was reported
\* with a status other than Matched
NotStoppedAt(i) ==
    /\ Reported(Compiled[i].name)
    /\ ~Compiled[i].do_continue
    /\ Matched[Compiled[i].name].status \in {"NotMatched", "PartiallyMatched"}

\* C2 as stated: in the result of a call, every rule after a rule with
\* do_continue == false that ended NotMatched or PartiallyMatched was
\* evaluated and is reported.
C2_Original ==
    pc = "returned" =>
        \A i \in DOMAIN Compiled :
            NotStoppedAt(i) =>
                \A j \in (i + 1) .. Len(Compiled) :
                    Evaluated(Compiled[j].name) /\ Reported(Compiled[j].name)

\* C2 amended: a rule with do_continue == false that ended NotMatched or
\* PartiallyMatched does not stop process: the rule after it is evaluated and
\* reported, and so is every later rule up to and including the first later
\* rule that ends Matched with do_continue == false.
C2_OnlyMatchedStops ==
    pc = "returned" =>
        \A i \in DOMAIN Compiled :
            NotStoppedAt(i) =>
                \A j \in (i + 1) .. Len(Compiled) :
                    \/ Evaluated(Compiled[j].name) /\ Reported(Compiled[j].name)
                    \/ \E k \in (i + 1) .. (j - 1) : StoppedAt(k)

\* a call returned in which a rule with do_continue == false failed to render
\* an action, and the rule after it was evaluated
C2_Witness ==
    /\ pc = "returned"
    /\ \E i \in DOMAIN Compiled :
           /\ i < Len(Compiled)
           /\ NotStoppedAt(i)
           /\ Matched[Compiled[i].name].status = "PartiallyMatched"
           /\ Matched[Compiled[i].name].message.v.error.kind = "CreateActionError"
           /\ Reported(Compiled[i + 1].name)

\* C3 as stated: of any two rules of the configuration that process
\* evaluated, the one declared first was evaluated first.
C3_Original ==
    InCall =>
        \A i, j \in DOMAIN config :
            (i < j /\ Evaluated(config[i].name) /\ Evaluated(config[j].name))
            => PosIn(evaluated, config[i].name) < PosIn(evaluated, config[j].name)

\* C3 amended: rules are evaluated by process in ascending order of priority:
\* when a rule was evaluated, every active rule of the configuration with a
\* lower priority was evaluated before it, wherever the two were declared.
C3_PriorityOrder ==
    InCall =>
        \A i, j \in DOMAIN config :
            ( /\ config[i].priority < config[j].priority
              /\ config[i].active
              /\ Evaluated(config[j].name) )
            => /\ Evaluated(config[i].name)
               /\ PosIn(evaluated, config[i].name) < PosIn(evaluated, config[j].name)

\* two rules were evaluated against their declaration order
C3_Witness ==
    /\ InCall
    /\ \E i, j \in DOMAIN config :
           /\ i < j
           /\ config[i].priority > config[j].priority
           /\ Evaluated(config[i].name)
           /\ Evaluated(config[j].name)

\* the orders in which the rules of the configuration can be given
Reorderings(rules) ==
    {[i \in DOMAIN rules |-> rules[f[i]]] :
        f \in {g \in [DOMAIN rules -> DOMAIN rules] : Range(g) = DOMAIN rules}}

\* C4: when Matcher::new returns a Matcher, its rules are in strictly
\* ascending order of priority, every other order of the same rules compiles
\* to the same Matcher, and process evaluates the rules in that sequence.
C4_SortedByPriority ==
    (pc # "new" /\ built.ok) =>
        /\ \A i, j \in DOMAIN Compiled :
               i < j => Compiled[i].priority < Compiled[j].priority
        /\ \A other \in Reorderings(config) : MatcherNew(other) = built
        /\ \A k \in DOMAIN evaluated : evaluated[k] = Compiled[k].name

\* three rules given in an order that is not their order of priority were
\* compiled and all evaluated
C4_Witness ==
    /\ pc = "returned"
    /\ Len(Compiled) = 3
    /\ Len(evaluated) = 3
    /\ config[1].priority > config[2].priority
    /\ config[3].priority < config[1].priority

\* C5 as stated: every rule configured with active == false is in the result
\* of process with status NotProcessed and no actions.
C5_Original ==
    pc = "returned" =>
        \A i \in DOMAIN config :
            ~config[i].active =>
                /\ Reported(config[i].name)
                /\ Matched[config[i].name].status = "NotProcessed"
                /\ Matched[config[i].name].actions = <<>>

\* C5 amended: a rule configured with active == false is not compiled, is
\* never evaluated by process and never has an entry in its result.
C5_InactiveAbsent ==
    (pc # "new" /\ built.ok) =>
        \A i \in DOMAIN config :
            ~config[i].active =>
                /\ \A k \in DOMAIN Compiled : Compiled[k].name # config[i].name
                /\ ~Evaluated(config[i].name)
                /\ ~Reported(config[i].name)

\* a call returned a result with entries for a configuration with an inactive rule
C5_Witness ==
    /\ pc = "returned"
    /\ \E i \in DOMAIN config : ~config[i].active
    /\ Matched # EmptyMap

ActiveRules == {i \in DOMAIN config : config[i].active}

\* C6: the rules of the Matcher that Matcher::new returns are exactly the
\* active rules of the configuration, as many as there are, and of two
\* active rules the one with the lower priority comes first.
C6_OnlyActive ==
    (pc # "new" /\ built.ok) =>
        /\ Len(Compiled) = Cardinality(ActiveRules)
        /\ Range([k \in DOMAIN Compiled |-> Compiled[k].name])
               = {config[i].name : i \in ActiveRules}
        /\ \A i, j \in ActiveRules :
               config[i].priority < config[j].priority
               => PosIn([k \in DOMAIN Compiled |-> Compiled[k].name], config[i].name)
                      < PosIn([k \in DOMAIN Compiled |-> Compiled[k].name], config[j].name)

\* a Matcher was built from an inactive rule and two active rules given
\* against their order of priority
C6_Witness ==
    /\ pc = "ready"
    /\ Len(config) = 3
    /\ Cardinality(ActiveRules) = 2
    /\ \E i, j \in ActiveRules : i < j /\ config[i].priority > config[j].priority

\* the error of Matcher::new is the not-unique-name error with a name that
\* two rules of the configuration have
IsNameError ==
    /\ built.err.kind = "NotUniqueRuleNameError"
    /\ \E i, j \in DOMAIN config :
           i < j /\ config[i].name = built.err.name /\ config[j].name = built.err.name

\* the error of Matcher::new is the not-unique-priority error with the names
\* of two rules, in the order given, and the priority that both have
IsPriorityError ==
    /\ built.err.kind = "NotUniqueRulePriorityError"
    /\ \E i, j \in DOMAIN config :
           /\ i < j
           /\ config[i].priority = built.err.priority
           /\ config[j].priority = built.err.priority
           /\ built.err.first_rule_name = config[i].name
           /\ built.err.second_rule_name = config[j].name

C8_Original == (pc # "new" /\ DupPriority) => (pc = "failed" /\ ~built.ok /\ IsPriorityError)

\* C8 amended: whenever two rules have the same priority, Matcher::new
\* returns an error and no Matcher; the error is the not-unique-priority
\* error with the two rule names in input order and the priority when no two
\* rules have the same name.
C8_NotUniquePriority ==
    (pc # "new" /\ DupPriority) =>
        /\ pc = "failed"
        /\ ~built.ok
        /\ ~DupName => IsPriorityError

\* Matcher::new failed on three rules with different names, two of them with
\* the same priority
C8_Witness ==
    /\ pc = "failed"
    /\ Len(config) = 3
    /\ DupPriority
    /\ ~DupName

\* C9: a rule is in the result with status Matched only if its where
\* operator is true of the event, every extractor of its with produced a
\* value, and every action rendered: the rule's action list is the rendering
\* of its configured actions, one entry each, in order.
C9_MatchedImplies ==
    InCall =>
        \A i \in DOMAIN Compiled :
            ( Reported(Compiled[i].name) /\ Matched[Compiled[i].name].status = "Matched" )
            => /\ OperatorEvaluate(Compiled[i].operator, processed_event)
               /\ \A k \in DOMAIN Compiled[i].extractor :
                      /\ IsSome(ValueExtractorExtract(Compiled[i].extractor[k], processed_event))
                      /\ Compiled[i].extractor[k].key
                             \in DOMAIN Matched[Compiled[i].name].extracted_vars
               /\ Len(Matched[Compiled[i].name].actions) = Len(Compiled[i].actions)
               /\ \A k \in DOMAIN Compiled[i].actions :
                      /\ MatcherActionExecute(Compiled[i].actions[k], processed_event).ok
                      /\ Matched[Compiled[i].name].actions[k]
                             = MatcherActionExecute(Compiled[i].actions[k], processed_event).val

\* a rule with an extractor and two actions ended Matched
C9_Witness ==
    /\ InCall
    /\ \E i \in DOMAIN Compiled :
           /\ Reported(Compiled[i].name)
           /\ Matched[Compiled[i].name].status = "Matched"
           /\ Len(Compiled[i].extractor) = 1
           /\ Len(Matched[Compiled[i].name].actions) = 2

\* the where operator of the compiled rule is true of the event and one of
\* its extractors produces no value
ExtractionFails(rule) ==
    /\ OperatorEvaluate(rule.operator, processed_event)
    /\ \E k \in DOMAIN rule.extractor :
           ~IsSome(ValueExtractorExtract(rule.extractor[k], processed_event))

\* C10: a rule whose where is true of the event and one of whose extractors
\* produces no value is reported with status PartiallyMatched, no extracted
\* variables, no actions and a message that names the rule; none of its
\* variables is among the extracted variables of the event either.
C10_ExtractorFailure ==
    InCall =>
        \A i \in DOMAIN Compiled :
            ( Evaluated(Compiled[i].name) /\ ExtractionFails(Compiled[i]) )
            => /\ Reported(Compiled[i].name)
               /\ Matched[Compiled[i].name].status = "PartiallyMatched"
               /\ Matched[Compiled[i].name].extracted_vars = EmptyMap
               /\ Matched[Compiled[i].name].actions = <<>>
               /\ IsSome(Matched[Compiled[i].name].message)
               /\ Matched[Compiled[i].name].message.v.rule = Compiled[i].name
               /\ \A k \in DOMAIN Compiled[i].extractor :
                      (Compiled[i].name \o <<".">> \o Compiled[i].extractor[k].key)
                          \notin DOMAIN processed_event.extracted_vars

\* a rule with an action was evaluated whose where is true and whose extractor fails
C10_Witness ==
    /\ InCall
    /\ \E i \in DOMAIN Compiled :
           /\ Evaluated(Compiled[i].name)
           /\ ExtractionFails(Compiled[i])
           /\ Len(Compiled[i].actions) > 0

\* every extractor of the compiled rule produces a value, its where is true of
\* the event, and one of its actions cannot be rendered
ActionFails(rule) ==
    /\ OperatorEvaluate(rule.operator, processed_event)
    /\ ExtractAll(rule.name, rule.extractor, processed_event).ok
    /\ \E k \in DOMAIN rule.actions :
           ~MatcherActionExecute(rule.actions[k], processed_event).ok

\* C11 as stated: a rule whose extractors all succeed and one of whose actions
\* cannot be rendered is reported with status PartiallyMatched and a message,
\* and none of the variables it extracted is among the extracted variables
\* that the result reports for it.
C11_Original ==
    InCall =>
        \A i \in DOMAIN Compiled :
            ( Evaluated(Compiled[i].name) /\ ActionFails(Compiled[i]) )
            => /\ Reported(Compiled[i].name)
               /\ Matched[Compiled[i].name].status = "PartiallyMatched"
               /\ IsSome(Matched[Compiled[i].name].message)
               /\ \A k \in DOMAIN Compiled[i].extractor :
                      Compiled[i].extractor[k].key
                          \notin DOMAIN Matched[Compiled[i].name].extracted_vars

\* a rule with an extractor was evaluated whose second action cannot be rendered
C11_Witness ==
    /\ InCall
    /\ \E i \in DOMAIN Compiled :
           /\ Evaluated(Compiled[i].name)
           /\ ActionFails(Compiled[i])
           /\ Len(Compiled[i].extractor) = 1
           /\ Len(Matched[Compiled[i].name].actions) = 1

\* the guard of ProcessRule: the loop of process has a next rule
ProcessRuleEnabled == pc = "process" /\ position <= Len(built.val.rules)

\* a call of process runs on: the loop body and the return of process are
\* sequential code that, once reached, is executed.  The fairness of
\* ProcessRule is WF_vars(ProcessRule) with ENABLED written as its guard.
SpecLive ==
    /\ Init /\ [][Next]_vars
    /\ []<>(~ProcessRuleEnabled) \/ []<><<ProcessRule>>_vars
    /\ WF_vars(ProcessEnd)

\* every rule whose extractors or actions failed is reported PartiallyMatched
FailuresRecorded ==
    \A i \in DOMAIN Compiled :
        ( Evaluated(Compiled[i].name)
          /\ (ExtractionFails(Compiled[i]) \/ ActionFails(Compiled[i])) )
        => /\ Reported(Compiled[i].name)
           /\ Matched[Compiled[i].name].status = "PartiallyMatched"

\* the call returned a ProcessedEvent after the last rule, or at a rule that
\* ended Matched with do_continue == false, with an entry for every rule it
\* evaluated
ReturnedProcessedEvent ==
    /\ pc = "returned"
    /\ position > Len(Compiled) \/ StoppedAt(position)
    /\ DOMAIN Matched = Range(evaluated)
    /\ FailuresRecorded

\* C12: process is total: every call of process on a compiled matcher
\* returns a ProcessedEvent; a failing extractor or a failing action of a
\* rule does not end the call, which goes on to the end of the rules or to a
\* rule that ends Matched with do_continue == false, and the failure is
\* recorded as the PartiallyMatched status of that rule.
C12_Total == (pc = "process") ~> ReturnedProcessedEvent

\* a call returned after the last of three rules, of which the first failed to
\* extract and the second failed to render an action
C12_Witness ==
    /\ pc = "returned"
    /\ Len(Compiled) = 3
    /\ position > Len(Compiled)
    /\ ExtractionFails(Compiled[1])
    /\ ActionFails(Compiled[2])
    /\ Matched[Compiled[1].name].status = "PartiallyMatched"
    /\ Matched[Compiled[2].name].status = "PartiallyMatched"

\* C13: purity.  However the calls of process that the workers run on the
\* shared matcher interleave, two calls for the same event that are at the
\* same point hold the same ProcessedEvent, so calls that returned for the
\* same event returned equal results; and no step of a call changes the
\* matcher that Matcher::new built.
SameResults ==
    \A w, v \in Workers :
        ( /\ calls[w].pc = calls[v].pc
          /\ calls[w].position = calls[v].position
          /\ calls[w].processed_event.event = calls[v].processed_event.event )
        => calls[w].processed_event = calls[v].processed_event
C13_Purity == [](pc = "ready" => SameResults) /\ [][pc = "ready" => built' = built]_vars

\* two workers returned from calls for the same event on a matcher of three
\* rules, with a rule reported Matched
C13_Witness ==
    /\ pc = "ready"
    /\ Len(Compiled) = 3
    /\ calls[1].pc = "returned"
    /\ calls[2].pc = "returned"
    /\ calls[1].processed_event.event = calls[2].processed_event.event
    /\ \E name \in DOMAIN calls[1].processed_event.matched :
           calls[1].processed_event.matched[name].status = "Matched"

\* the variables that the result reports for the compiled rule at position i
\* are those of its own extractors, each with the value that extractor
\* produces from the event
OwnVariables(i) ==
    /\ DOMAIN Matched[Compiled[i].name].extracted_vars
           = {Compiled[i].extractor[k].key : k \in DOMAIN Compiled[i].extractor}
    /\ \A k \in DOMAIN Compiled[i].extractor :
           Matched[Compiled[i].name].extracted_vars[Compiled[i].extractor[k].key]
               = ValueExtractorExtract(Compiled[i].extractor[k], processed_event)

\* C14: extracted variables are grouped by rule.  Every rule that is reported
\* Matched has, in its own entry of the result (the entry under the rule's
\* name), the values of its own extractors; this stays so while later rules
\* are processed, so of two matching rules that declare the same variable
\* name neither overwrites the value of the other.
C14_GroupedByRule ==
    InCall =>
        \A i \in DOMAIN Compiled :
            ( Reported(Compiled[i].name) /\ Matched[Compiled[i].name].status = "Matched" )
            => OwnVariables(i)

\* two rules that declare the same variable name are both reported Matched,
\* with different values of the variable
C14_Witness ==
    /\ InCall
    /\ \E i, j \in DOMAIN Compiled :
           /\ i < j
           /\ Reported(Compiled[i].name)
           /\ Reported(Compiled[j].name)
           /\ Matched[Compiled[i].name].status = "Matched"
           /\ Matched[Compiled[j].name].status = "Matched"
           /\ V_temp \in DOMAIN Matched[Compiled[i].name].extracted_vars
           /\ V_temp \in DOMAIN Matched[Compiled[j].name].extracted_vars
           /\ Matched[Compiled[i].name].extracted_vars[V_temp]
                  # Matched[Compiled[j].name].extracted_vars[V_temp]

\* the rule of the configuration that the compiled rule was built from
ConfiguredRule(rule) == config[CHOOSE n \in DOMAIN config : config[n].name = rule.name]

\* the k-th extractor of the compiled rule is configured with the from text
\* ${_variables.<the variable of its j-th extractor>}
ReadsVariable(rule, k, j) ==
    ConfiguredRule(rule).constraint.with[rule.extractor[k].key].from
        = T_variable(rule.extractor[j].key)

K_dotted == <<"a", ".", "b">>
T_to == <<"t", "o", " ">>

\* the texts put between the delimiters
AccessorPaths ==
    {EVENT_SUFFIX,
     EVENT_SUFFIX \o <<".">> \o K_type,
     EVENT_SUFFIX \o <<".">> \o K_payload \o <<".">> \o K_body,
     EVENT_SUFFIX \o <<".">> \o K_payload \o <<".", "\"">> \o K_dotted \o <<"\"">>,
     EVENT_SUFFIX \o <<".">> \o K_type \o <<".">> \o K_body,
     EVENT_SUFFIX \o K_to,
     CURRENT_RULE_EXTRACTED_VAR_SUFFIX \o V_temp,
     CURRENT_RULE_EXTRACTED_VAR_SUFFIX \o K_dotted,
     CURRENT_RULE_EXTRACTED_VAR_SUFFIX,
     K_payload \o <<".">> \o K_body,
     <<>>,
     EVENT_SUFFIX \o <<".">> \o K_type \o end_delimiter \o <<" ">> \o start_delimiter
         \o EVENT_SUFFIX \o <<".">> \o K_payload}

Wrappings == {"bare", "delimited", "spaces_outside", "spaces_inside", "no_end",
              "no_start", "literal_before", "literal_after"}

\* a text of the configuration made of the path and what surrounds it
Wrap(wrapping, path) ==
    CASE wrapping = "bare" -> path
      [] wrapping = "delimited" -> start_delimiter \o path \o end_delimiter
      [] wrapping = "spaces_outside" ->
            <<" ">> \o start_delimiter \o path \o end_delimiter \o <<" ">>
      [] wrapping = "spaces_inside" ->
            start_delimiter \o <<" ">> \o path \o <<" ">> \o end_delimiter
      [] wrapping = "no_end" -> start_delimiter \o path
      [] wrapping = "no_start" -> path \o end_delimiter
      [] wrapping = "literal_before" -> T_to \o start_delimiter \o path \o end_delimiter
      [] wrapping = "literal_after" -> start_delimiter \o path \o end_delimiter \o T_to

\* the arguments of AccessorBuilder::build
AccessorInputs ==
    {[rule_name |-> RuleName(r), text |-> Wrap(w, p)] :
        r \in 1 .. MaxRules, w \in Wrappings, p \in AccessorPaths}

\* the processed events the accessors are asked for
AccessorEvents ==
    {ProcessedEventNew(EventValue(T_sms, EmptyMap)),
     [event |-> EventValue(T_email, [k \in {K_body, K_dotted} |->
                                        IF k = K_body THEN Text(T_hello) ELSE Text(T_sms)]),
      extracted_vars |-> [k \in {RuleName(1) \o <<".">> \o V_temp} |-> Text(T_email)],
      matched |-> EmptyMap]}

InitAccessor ==
    /\ config = <<>>
    /\ built = NotBuilt
    /\ pc = "accessor"
    /\ processed_event = ProcessedEventNew(Map(EmptyMap))
    /\ position = 0
    /\ evaluated = <<>>
    /\ calls = [w \in Workers |-> IdleCall]
    /\ sent = <<>>
    /\ input \in AccessorInputs
    /\ output = NotBuilt
    /\ value = None

\* AccessorBuilder::build(rule_name, input)
AccessorBuilderBuild ==
    /\ pc = "accessor"
    /\ output' = AccessorBuild(input.rule_name, input.text)
    /\ pc' = "accessor_built"
    /\ UNCHANGED <<config, built, processed_event, position, evaluated, calls>>
    /\ UNCHANGED <<input, value>>
    /\ UNCHANGED sent

\* Accessor::get(event) on the accessor that was built
AccessorGetEvent ==
    /\ pc = "accessor_built"
    /\ output.ok
    /\ \E event \in AccessorEvents :
          /\ processed_event' = event
          /\ value' = AccessorGet(output.val, event)
    /\ pc' = "accessor_got"
    /\ UNCHANGED <<config, built, position, evaluated, calls>>
    /\ UNCHANGED <<input, output>>
    /\ UNCHANGED sent

NextAccessor == AccessorBuilderBuild \/ AccessorGetEvent

SpecAccessor == InitAccessor /\ [][NextAccessor]_vars


(***************************************************************************)
(* The accessor builder.                                                   *)
(***************************************************************************)
\* AccessorBuilder::build has returned
AccessorBuilt == pc \in {"accessor_built", "accessor_got"}

\* the trimmed input is wrapped in the delimiters
Delimited ==
    /\ StartsWith(Trim(input.text), start_delimiter)
    /\ EndsWith(Trim(input.text), end_delimiter)

\* the trimmed text between the delimiters of a delimited input
Inner ==
    Trim(Slice(Trim(input.text), Len(start_delimiter) + 1,
               Len(Trim(input.text)) - Len(end_delimiter)))

\* the text after a prefix of the inner text, trimmed
InnerAfter(prefix) == Trim(Slice(Inner, Len(prefix) + 1, Len(Inner)))

IsEventPath == Delimited /\ (Inner = EVENT_SUFFIX \/ StartsWith(Inner, EVENT_SUFFIX \o <<".">>))
IsVariablePath == Delimited /\ StartsWith(Inner, CURRENT_RULE_EXTRACTED_VAR_SUFFIX)

\* C16: AccessorBuilder::build dispatches on the trimmed input: a text that
\* is not wrapped in ${ and } gives a Constant accessor holding the input
\* text; ${event} and ${event.<path>} give an Event accessor whose keys are
\* the parsed path; ${_variables.<id>} with a valid id gives an ExtractedVar
\* accessor; every other ${...} fails with UnknownAccessorError carrying the
\* trimmed accessor text.
C16_Dispatch ==
    AccessorBuilt =>
        /\ ~Delimited => output = Ok(ConstantAccessor(Text(input.text)))
        /\ IsEventPath =>
              /\ output.ok => output.val.acc = "Event"
              /\ parse_event_key(InnerAfter(EVENT_SUFFIX), Trim(input.text), input.rule_name)
                    = (IF output.ok THEN Ok(output.val.keys) ELSE output)
        /\ (IsVariablePath /\ IsValidId(InnerAfter(CURRENT_RULE_EXTRACTED_VAR_SUFFIX))) =>
              output.ok /\ output.val.acc = "ExtractedVar"
        /\ (Delimited /\ ~IsEventPath /\ ~IsVariablePath) =>
              output = Err(UnknownAccessorError(Trim(input.text)))

\* build has dispatched a delimited event path with spaces around it to the
\* Event accessor of its two keys
C16_Witness ==
    /\ pc = "accessor_built"
    /\ input.text = Wrap("spaces_outside",
                         EVENT_SUFFIX \o <<".">> \o K_payload \o <<".">> \o K_body)
    /\ output = Ok(EventAccessor(<<K_payload, K_body>>))


\* C17: for the rule R, ${_variables.<id>} gives the ExtractedVar accessor
\* whose key is exactly R.<id> when <id> is a valid identifier, and fails
\* with NotValidIdOrNameError naming the accessor text when it is not, as
\* when the id contains a dot.
C17_VariableKey ==
    (AccessorBuilt /\ IsVariablePath) =>
        IF IsValidId(InnerAfter(CURRENT_RULE_EXTRACTED_VAR_SUFFIX))
        THEN output = Ok(ExtractedVarAccessor(
                 input.rule_name \o <<".">> \o InnerAfter(CURRENT_RULE_EXTRACTED_VAR_SUFFIX)))
        ELSE /\ ~output.ok
             /\ output.err.kind = "NotValidIdOrNameError"
             /\ output.err.message.accessor = Trim(input.text)

\* build was given ${_variables.temp} for the rule r2 and returned the
\* accessor of the key r2.temp
C17_Witness ==
    /\ pc = "accessor_built"
    /\ input = [rule_name |-> RuleName(2),
                text |-> Wrap("delimited", CURRENT_RULE_EXTRACTED_VAR_SUFFIX \o V_temp)]
    /\ output = Ok(ExtractedVarAccessor(<<"r", "2", ".", "t", "e", "m", "p">>))


\* the position of the first start delimiter of text at or after i that is
\* followed by an end delimiter, 0 if none
SegmentStart(text, i) ==
    IF \E j \in i .. (Len(text) - 1) :
          Slice(text, j, j + 1) = start_delimiter /\ NextAt(text, j + 1, "}") # 0
    THEN Least({j \in i .. (Len(text) - 1) :
                   Slice(text, j, j + 1) = start_delimiter /\ NextAt(text, j + 1, "}") # 0})
    ELSE 0

\* the pieces of a text from position i on, left to right: the literal
\* pieces and the inner expressions of the ${...} segments
RECURSIVE Pieces(_, _)
PiecesAt(text, i, s) ==
    IF s = 0 THEN <<[literal |-> TRUE, text |-> Slice(text, i, Len(text))]>>
    ELSE (IF s > i THEN <<[literal |-> TRUE, text |-> Slice(text, i, s - 1)]>> ELSE <<>>)
         \o <<[literal |-> FALSE,
               text |-> Slice(text, s, NextAt(text, s + 1, "}"))]>>
         \o Pieces(text, NextAt(text, s + 1, "}") + 1)
Pieces(text, i) ==
    IF i > Len(text) THEN <<>> ELSE PiecesAt(text, i, SegmentStart(text, i))

\* the trimmed input has a ${...} segment and something else beside it
Mixed ==
    /\ Len(Pieces(Trim(input.text), 1)) >= 2
    /\ \E k \in DOMAIN Pieces(Trim(input.text), 1) : ~Pieces(Trim(input.text), 1)[k].literal

\* what the claim expects of one piece: a literal is a constant, a segment
\* is what build returns for the segment alone
PartOf(piece) ==
    IF piece.literal THEN Ok(ConstantAccessor(Text(piece.text)))
    ELSE AccessorBuild(input.rule_name, piece.text)

\* C18 as stated: a text with ${...} segments mixed with literal text
\* compiles to an Interpolated accessor whose parts are, in order, the
\* literal pieces as constants and the parsed inner expressions.
C18_Original ==
    (AccessorBuilt /\ Mixed) =>
        /\ output.ok
        /\ output.val.acc = "Interpolated"
        /\ Ok(output.val.parts)
              = CollectResults([k \in DOMAIN Pieces(Trim(input.text), 1) |->
                                   PartOf(Pieces(Trim(input.text), 1)[k])])

\* build was given a literal prefix followed by ${event.type} and returned
\* the Constant accessor of the whole text
C18_Witness ==
    /\ pc = "accessor_built"
    /\ input.text = Wrap("literal_before", EVENT_SUFFIX \o <<".">> \o K_type)
    /\ output = Ok(ConstantAccessor(Text(T_to \o T_event_type)))


(***************************************************************************)
(* AccessorBuilder::parse_event_key applied to bounded inputs: every text  *)
(* of at most MaxKeyLen characters over a letter, the dot and the double   *)
(* quote, and the keys of the tests of the parser.                         *)
(***************************************************************************)
MaxKeyLen == 7
KeyChars == {"a", ".", "\""}

\* the keys of builder_should_parse_a_payload_key and of the tests after it
KeyExamples ==
    {<<"o", "n", "e", ".", "t", "w", "o", ".", "\"", "t", "h", " ", "i", "r",
      ".", "d", "\"">>,
     <<"\"", "t", "h", " ", "i", "r", ".", "d", "\"", ".", "a", ".", "\"",
      "f", "o", "u", "r", "t", "h", "\"", ".", "t", "w", "o">>,
     <<"o", "n", "e", ".", "\"", "\"">>,
     <<".", "h", "e", "l", "l", "o", ".", "w", "o", "r", "l", "d">>,
     <<"o", "\"", "n", "e">>,
     <<"o", "n", "e", ".", "\"", "t", "w", "o">>}

KeyTexts == UNION {[1 .. n -> KeyChars] : n \in 0 .. MaxKeyLen} \cup KeyExamples

K_a == <<"a">>
K_a_a == <<"a", ".", "a">>

\* the event the parsed keys are looked up in: maps with a key that has a
\* dot and with the empty key
KeyEvent ==
    ProcessedEventNew(
        Map([k \in {K_a, K_a_a} |->
                IF k = K_a_a THEN Text(T_email)
                ELSE Map([j \in {K_a, K_a_a, <<>>} |->
                             IF j = K_a_a THEN Text(T_hello)
                             ELSE IF j = K_a THEN Text(T_sms)
                             ELSE Map([h \in {K_a} |-> Text(T_email)])])]))

InitKey ==
    /\ config = <<>>
    /\ built = NotBuilt
    /\ pc = "key"
    /\ processed_event = KeyEvent
    /\ position = 0
    /\ evaluated = <<>>
    /\ calls = [w \in Workers |-> IdleCall]
    /\ sent = <<>>
    /\ input \in {[rule_name |-> RuleName(1), text |-> t] : t \in KeyTexts}
    /\ output = NotBuilt
    /\ value = None

\* AccessorBuilder::parse_event_key(key, full_accessor, rule_name)
ParseEventKey ==
    /\ pc = "key"
    /\ output' = parse_event_key(input.text, input.text, input.rule_name)
    /\ pc' = "key_parsed"
    /\ UNCHANGED <<config, built, processed_event, position, evaluated, calls>>
    /\ UNCHANGED <<input, value>>
    /\ UNCHANGED sent

\* Accessor::get(event) on the Event accessor of the parsed keys
KeyGetEvent ==
    /\ pc = "key_parsed"
    /\ output.ok
    /\ value' = AccessorGet(EventAccessor(output.val), processed_event)
    /\ pc' = "key_got"
    /\ UNCHANGED <<config, built, processed_event, position, evaluated, calls>>
    /\ UNCHANGED <<input, output>>
    /\ UNCHANGED sent

NextKey == ParseEventKey \/ KeyGetEvent

SpecKey == InitKey /\ [][NextKey]_vars


(***************************************************************************)
(* The parser of the paths.                                                *)
(***************************************************************************)
\* parse_event_key has returned
KeyParsed == pc \in {"key_parsed", "key_got"}

\* a dot of the text that is outside double quotes: the number of quotes
\* before it is even
IsSplitDot(text, i) ==
    /\ text[i] = "."
    /\ Cardinality({j \in 1 .. (i - 1) : text[j] = "\""}) % 2 = 0

\* the end of the segment that starts at position i: the character before
\* the next dot outside quotes, or the end of the text
SegmentEnd(text, i) ==
    IF \E j \in i .. Len(text) : IsSplitDot(text, j)
    THEN Least({j \in i .. Len(text) : IsSplitDot(text, j)}) - 1
    ELSE Len(text)

\* the nonempty segments of a text from position i on, split at the dots
\* outside quotes
RECURSIVE Segments(_, _)
Segments(text, i) ==
    IF i > Len(text) THEN <<>>
    ELSE IF IsSplitDot(text, i) THEN Segments(text, i + 1)
    ELSE <<Slice(text, i, SegmentEnd(text, i))>> \o Segments(text, SegmentEnd(text, i) + 2)

\* a segment enclosed in matching double quotes
IsQuotedSegment(segment) ==
    /\ Len(segment) >= 2
    /\ segment[1] = "\""
    /\ segment[Len(segment)] = "\""
    /\ \A j \in 2 .. (Len(segment) - 1) : segment[j] # "\""

\* the double quotes of the text appear only as the matched delimiters of
\* whole segments
QuotesDelimit(text) ==
    \A k \in DOMAIN Segments(text, 1) :
        \/ IsQuotedSegment(Segments(text, 1)[k])
        \/ \A j \in DOMAIN Segments(text, 1)[k] : Segments(text, 1)[k][j] # "\""

\* the key of a segment: the text between the quotes, or the segment
KeyOf(segment) ==
    IF IsQuotedSegment(segment) THEN Slice(segment, 2, Len(segment) - 1) ELSE segment

HasDot(key) == \E j \in DOMAIN key : key[j] = "."

\* C19: a path is split on its dots except those inside a double-quoted
\* segment; a segment enclosed in matching double quotes becomes one key
\* with the quotes removed and what is between them kept, dots and spaces
\* included; and the Event accessor of such keys reads the map entry whose
\* key contains the dots.
C19_QuotedKeys ==
    /\ (KeyParsed /\ QuotesDelimit(input.text)) =>
          output = Ok([k \in DOMAIN Segments(input.text, 1) |->
                          KeyOf(Segments(input.text, 1)[k])])
    /\ (pc = "key_got" /\ Len(output.val) = 1 /\ HasDot(output.val[1])) =>
          value = ValueChild(processed_event.event, output.val[1])
    /\ (pc = "key_got" /\ Len(output.val) = 2 /\ HasDot(output.val[2])) =>
          value = ValueChild(ValueChild(processed_event.event, output.val[1]), output.val[2])

\* the path a."a.a" was parsed to the keys a and a.a, and the accessor read
\* the entry a.a of the map under a
C19_Witness ==
    /\ pc = "key_got"
    /\ input.text = <<"a", ".", "\"", "a", ".", "a", "\"">>
    /\ output = Ok(<<K_a, K_a_a>>)
    /\ value = Text(T_hello)


\* C20 as stated: for every path text, parse_event_key returns
\* NotValidIdOrNameError whenever a double quote appears anywhere else than
\* as the matched opening and closing delimiter of a whole dot-separated
\* segment: a quote inside a key, an opening quote without a closing one, a
\* segment that is a single quote, text after a closing quote.
C20_Original ==
    (KeyParsed /\ ~QuotesDelimit(input.text)) =>
        ~output.ok /\ output.err.kind = "NotValidIdOrNameError"

\* parse_event_key was given "a"a, where text follows the closing quote,
\* and returned the keys a and a
C20_Witness ==
    /\ pc = "key_parsed"
    /\ input.text = <<"\"", "a", "\"", "a">>
    /\ ~QuotesDelimit(input.text)
    /\ output = Ok(<<K_a, K_a>>)


\* the text has no double quote
Unquoted(text) == \A j \in DOMAIN text : text[j] # "\""

\* C21: the parser ignores a leading dot and a trailing dot: for every path
\* p without quotes, .p and p. parse to the same keys as p; the empty path
\* and the single dot parse to no key.
C21_DotsIgnored ==
    /\ (KeyParsed /\ Unquoted(input.text)) =>
          /\ output.ok
          /\ parse_event_key(<<".">> \o input.text, input.text, input.rule_name) = output
          /\ parse_event_key(input.text \o <<".">>, input.text, input.rule_name) = output
    /\ (KeyParsed /\ input.text \in {<<>>, <<".">>}) => output = Ok(<<>>)

\* the path .hello.world of the tests was parsed to the keys hello, world
C21_Witness ==
    /\ pc = "key_parsed"
    /\ input.text = <<".", "h", "e", "l", "l", "o", ".", "w", "o", "r", "l", "d">>
    /\ output = Ok(<<T_hello, <<"w", "o", "r", "l", "d">>>>)
    /\ parse_event_key(Slice(input.text, 2, Len(input.text)), input.text, input.rule_name)
          = output


\* two consecutive dots of an unquoted text that stand between two other
\* characters
HasEmptySegment(text) ==
    \E i \in 2 .. (Len(text) - 2) :
        /\ text[i] = "." /\ text[i + 1] = "."
        /\ text[i - 1] # "." /\ text[i + 2] # "."

\* C22 as stated: two consecutive dots give an empty key segment, a..a
\* parses to the three keys a, the empty text, a, and the accessor of these
\* keys looks up the map entry whose key is the empty text.
C22_Original ==
    /\ (KeyParsed /\ Unquoted(input.text) /\ HasEmptySegment(input.text)) =>
          output.ok /\ \E k \in DOMAIN output.val : output.val[k] = <<>>
    /\ (KeyParsed /\ input.text = <<"a", ".", ".", "a">>) => output = Ok(<<K_a, <<>>, K_a>>)
    /\ (pc = "key_got" /\ input.text = <<"a", ".", ".", "a">>) =>
          value = ValueChild(ValueChild(ValueChild(processed_event.event, K_a), <<>>), K_a)

\* the path a..a was parsed to the two keys a, a and the accessor read the
\* entry a of the map under a
C22_Witness ==
    /\ pc = "key_got"
    /\ input.text = <<"a", ".", ".", "a">>
    /\ output = Ok(<<K_a, K_a>>)
    /\ value = Text(T_sms)


(***************************************************************************)
(* The evaluation of the accessors.                                        *)
(***************************************************************************)
\* the value reached from a root by a sequence of keys, the last key
\* applied to what the keys before it reach
RECURSIVE Descend(_, _)
Descend(root, keys) ==
    IF keys = <<>> THEN root
    ELSE IF /\ Descend(root, SubSeq(keys, 1, Len(keys) - 1)).t = "Map"
            /\ keys[Len(keys)] \in DOMAIN Descend(root, SubSeq(keys, 1, Len(keys) - 1)).v
    THEN Descend(root, SubSeq(keys, 1, Len(keys) - 1)).v[keys[Len(keys)]]
    ELSE None

\* the k-th key is found in what the keys before it reach
KeyFound(root, keys, k) == IsSome(Descend(root, SubSeq(keys, 1, k)))

\* C23: Accessor::get of an Event accessor follows the keys as a chain of
\* child lookups from the event root: it returns the value at the end of
\* the chain when every key is found, absent as soon as a key is missing or
\* the value reached has no children, the whole event for no keys; a
\* Constant accessor returns its value for every event.
C23_GetChain ==
    pc = "accessor_got" =>
        /\ (output.val.acc = "Event" /\ output.val.keys = <<>>) =>
              value = processed_event.event
        /\ (/\ output.val.acc = "Event"
            /\ \A k \in DOMAIN output.val.keys :
                  KeyFound(processed_event.event, output.val.keys, k)) =>
              /\ IsSome(value)
              /\ value = Descend(processed_event.event, output.val.keys)
        /\ (/\ output.val.acc = "Event"
            /\ \E k \in DOMAIN output.val.keys :
                  ~KeyFound(processed_event.event, output.val.keys, k)) =>
              value = None
        /\ output.val.acc = "Constant" => value = output.val.value

\* get followed the keys payload, body to the text under them
C23_Witness ==
    /\ pc = "accessor_got"
    /\ output = Ok(EventAccessor(<<K_payload, K_body>>))
    /\ value = Text(T_hello)


\* the positions of the compiled rules that the result reports as Matched
\* with do_continue == false
Stops == {i \in DOMAIN Compiled : StoppedAt(i)}

\* the position of the last rule the result has to cover
LastCovered == IF Stops = {} THEN Len(Compiled) ELSE Least(Stops)

\* C29: after process the result has exactly one entry, under the rule's
\* name, for each compiled rule up to and including the first rule that
\* ended Matched with do_continue == false, or for every compiled rule when
\* there is none; an entry is NotMatched exactly when the rule's where is
\* false of the event, and such an entry has no extracted variables, no
\* actions and no message.
C29_ResultCoverage ==
    pc = "returned" =>
        /\ DOMAIN Matched = {Compiled[i].name : i \in 1 .. LastCovered}
        /\ Cardinality(DOMAIN Matched) = LastCovered
        /\ \A i \in 1 .. LastCovered :
              /\ Matched[Compiled[i].name].status = "NotMatched"
                    <=> ~OperatorEvaluate(Compiled[i].operator, processed_event)
              /\ Matched[Compiled[i].name].status = "NotMatched" =>
                    Matched[Compiled[i].name] = NewProcessedRule

\* a call returned at the second of three rules, which ended Matched with
\* do_continue == false, after a first rule whose where was false
C29_Witness ==
    /\ pc = "returned"
    /\ Len(Compiled) = 3
    /\ LastCovered = 2
    /\ Matched[Compiled[1].name] = NewProcessedRule
    /\ ~OperatorEvaluate(Compiled[1].operator, processed_event)
    /\ Matched[Compiled[2].name].status = "Matched"
    /\ ~Reported(Compiled[3].name)


\* C30 as stated: in every result of process a rule whose status is
\* PartiallyMatched or NotMatched has an empty list of actions, also when
\* an action failed after earlier actions of the rule had been rendered.
C30_Original ==
    pc = "returned" =>
        \A name \in DOMAIN Matched :
            Matched[name].status \in {"PartiallyMatched", "NotMatched"}
                => Matched[name].actions = <<>>

\* process returned a rule as PartiallyMatched whose first action was
\* rendered and is in its list, the second action having failed
C30_Witness ==
    /\ pc = "returned"
    /\ \E i \in DOMAIN Compiled :
           /\ Len(Compiled[i].actions) = 2
           /\ MatcherActionExecute(Compiled[i].actions[1], processed_event).ok
           /\ ~MatcherActionExecute(Compiled[i].actions[2], processed_event).ok
           /\ Reported(Compiled[i].name)
           /\ Matched[Compiled[i].name].status = "PartiallyMatched"
           /\ Matched[Compiled[i].name].actions
                 = <<MatcherActionExecute(Compiled[i].actions[1], processed_event).val>>


(***************************************************************************)
(* Configurations with rules that the builders reject.                     *)
(***************************************************************************)
T_unknown == Wrap("delimited", EVENT_SUFFIX \o K_to)
T_bad_variable == Wrap("delimited", CURRENT_RULE_EXTRACTED_VAR_SUFFIX \o K_dotted)
RE_open == <<"[", "z">>

\* a rule body that compiles and three that do not: an unknown accessor in
\* the where, a regular expression that does not compile in the with, an
\* accessor with an invalid identifier in an action
CompileBodies ==
    {PlainBody,
     [constraint |-> [where_operator |-> [op |-> "Equal", first |-> T_unknown,
                                          second |-> T_email],
                      with |-> EmptyMap],
      actions |-> <<>>],
     [constraint |-> [where_operator |-> EqualType(T_email), with |-> Extract(RE_open)],
      actions |-> <<>>],
     [constraint |-> [where_operator |-> EqualType(T_email), with |-> EmptyMap],
      actions |-> <<ActionTo,
                    [id |-> "archive", payload |-> [k \in {K_body} |-> T_bad_variable]]>>]}

\* the i-th rule has priority i - 1 and is named r<i>, or r1 again
CompileChoices == [body : CompileBodies, active : BOOLEAN, renamed : BOOLEAN]
CompileConfigs ==
    {[i \in DOMAIN c |->
         Rule(RuleName(IF c[i].renamed THEN 1 ELSE i), i - 1, TRUE, c[i].active, c[i].body)] :
        c \in SeqsUpTo(CompileChoices)}

InitCompile == InitWith(CompileConfigs)
SpecCompile == InitCompile /\ [][Next]_vars

(***************************************************************************)
(* The errors of the compilation.                                          *)
(***************************************************************************)
\* the three builders accept the rule
RuleCompiles(rule) ==
    /\ OperatorBuild(rule.name, rule.constraint.where_operator).ok
    /\ MatcherExtractorBuild(rule.name, rule.constraint.with).ok
    /\ MatcherActionBuild(rule.name, rule.actions).ok

\* the error of the first builder that rejects the rule
RuleError(rule) ==
    IF ~OperatorBuild(rule.name, rule.constraint.where_operator).ok
    THEN OperatorBuild(rule.name, rule.constraint.where_operator)
    ELSE IF ~MatcherExtractorBuild(rule.name, rule.constraint.with).ok
    THEN MatcherExtractorBuild(rule.name, rule.constraint.with)
    ELSE MatcherActionBuild(rule.name, rule.actions)

\* the active rules of the configuration that a builder rejects
Rejected == {i \in DOMAIN config : config[i].active /\ ~RuleCompiles(config[i])}

\* C26: the compilation is all or nothing: when the validation fails, or a
\* builder rejects the operator, the extractors or the actions of a rule
\* that is compiled, Matcher::new returns that error and no Matcher; a
\* Matcher is returned only when every such rule compiled, and it holds
\* them all.
C26_AllOrNothing ==
    pc \in {"failed", "ready"} =>
        /\ built.ok <=> (ValidateAll(config).ok /\ Rejected = {})
        /\ ~ValidateAll(config).ok => built = ValidateAll(config)
        /\ (ValidateAll(config).ok /\ Rejected # {}) =>
              built = RuleError(config[Least(Rejected)])
        /\ built.ok => Len(built.val.rules) = Cardinality({i \in DOMAIN config : config[i].active})

\* Matcher::new returned the error of the unknown accessor of the third
\* rule, the two rules before it being accepted
C26_Witness ==
    /\ pc = "failed"
    /\ Len(config) = 3
    /\ ValidateAll(config).ok
    /\ RuleCompiles(config[1]) /\ config[1].active
    /\ RuleCompiles(config[2]) /\ config[2].active
    /\ config[3].active
    /\ built = Err(UnknownAccessorError(T_unknown))

(***************************************************************************)
(* The webhook collector: create_app and the handler of each webhook.      *)
(***************************************************************************)
\* how many events the callback receives before the server stops serving
MaxSent == 2

WebhookIds == {"hook_1", "hook_2"}
WebhookTokens == {"hook_1_token", "hook_2_token"}
WRONG_TOKEN == "WRONG_TOKEN"
\* the event type of a collector: a constant text or a JMESPath expression
HookType == "hook_type"
MapFirst == "${map.first}"

\* WebhookConfig; the webhooks of a configuration have different ids
WebhooksConfigs ==
    {<<>>} \cup
    {c \in SeqsUpTo([id : WebhookIds, token : WebhookTokens,
                     collector_config : [event_type : {HookType, MapFirst}]]) :
        \A i, j \in DOMAIN c : c[i].id = c[j].id => i = j}

PingPath == <<"ping">>
\* format!("/event/{}", config.id)
EventPath(id) == <<"event", id>>

\* the bodies of the requests: {"map": {"first": <text>}}
RequestBodies == [map : [first : {"webhook_event", "other_event"}]]
\* the requests: a method, a path, the token of the query and the body
Requests ==
    [method : {"GET", "POST"},
     path : {PingPath} \cup {EventPath(id) : id \in WebhookIds},
     token : WebhookTokens \cup {WRONG_TOKEN},
     body : RequestBodies]

\* JMESPathEventCollector::build(config.collector_config)
JMESPathEventCollectorBuild(collector_config) == collector_config

\* the event the collector makes of the body of a request
JMESPathEventCollectorCollect(collector, body) ==
    [event_type |-> IF collector.event_type = MapFirst THEN body.map.first
                    ELSE collector.event_type,
     payload |-> EmptyMap]

\* mutant of CreateApp: every handler holds the token of the first webhook
CreateAppSharedToken(webhooks_config) ==
    <<[path |-> PingPath, method |-> "GET", handler |-> [kind |-> "pong"]]>>
    \o [i \in DOMAIN webhooks_config |->
           [path |-> EventPath(webhooks_config[i].id),
            method |-> "POST",
            handler |-> [kind |-> "webhook",
                         id |-> webhooks_config[i].id,
                         token |-> webhooks_config[1].token,
                         collector |-> JMESPathEventCollectorBuild(
                                           webhooks_config[i].collector_config)]]]

\* create_app: the resource /ping, then one resource per webhook, whose
\* handler holds the id, the token and the collector of that webhook
CreateApp(webhooks_config) ==
    <<[path |-> PingPath, method |-> "GET", handler |-> [kind |-> "pong"]]>>
    \o [i \in DOMAIN webhooks_config |->
           [path |-> EventPath(webhooks_config[i].id),
            method |-> "POST",
            handler |-> [kind |-> "webhook",
                         id |-> webhooks_config[i].id,
                         token |-> webhooks_config[i].token,
                         collector |-> JMESPathEventCollectorBuild(
                                           webhooks_config[i].collector_config)]]]

\* what a request gets: the response and the events given to the callback
Answer(status, body, events) ==
    [response |-> [status |-> status, body |-> body], callback |-> events]

\* pong
Pong == Answer("OK", "pong", <<>>)

\* Handler::handle: the token of the request is compared with the token of
\* the handler
HandlerHandle(handler, request) ==
    IF request.token = handler.token
    THEN Answer("OK", handler.id,
                <<JMESPathEventCollectorCollect(handler.collector, request.body)>>)
    ELSE Answer("UNAUTHORIZED", "", <<>>)

\* the resources of the app that a request matches
Routes(app, request) ==
    {i \in DOMAIN app : app[i].path = request.path /\ app[i].method = request.method}

\* the app serves a request: the handler of the resource with the path and
\* the method of the request answers, and no resource is NOT_FOUND
Serve(app, request) ==
    IF Routes(app, request) = {} THEN Answer("NOT_FOUND", "", <<>>)
    ELSE IF app[CHOOSE i \in Routes(app, request) : TRUE].handler.kind = "pong" THEN Pong
    ELSE HandlerHandle(app[CHOOSE i \in Routes(app, request) : TRUE].handler, request)

\* the callback of main: clone.do_send(EventMessage { event })
Callback(events) == [i \in DOMAIN events |-> [event |-> events[i]]]

InitWebhook ==
    /\ config \in WebhooksConfigs
    /\ built = NotBuilt
    /\ pc = "webhooks"
    /\ processed_event = ProcessedEventNew(Map(EmptyMap))
    /\ position = 0
    /\ evaluated = <<>>
    /\ calls = [w \in Workers |-> IdleCall]
    /\ sent = <<>>
    /\ input = <<>>
    /\ output = NotBuilt
    /\ value = None

\* server::new(move || create_app(webhooks_config.clone(), ...))
ServerNew ==
    /\ pc = "webhooks"
    /\ built' = Ok(CreateApp(config))
    /\ pc' = "serving"
    /\ UNCHANGED <<config, processed_event, position, evaluated, calls>>
    /\ UNCHANGED applied
    /\ UNCHANGED sent

\* the server answers one request
ServerRequest ==
    /\ pc = "serving"
    /\ Len(sent) < MaxSent
    /\ \E request \in Requests :
           /\ input' = request
           /\ output' = Serve(built.val, request).response
           /\ sent' = sent \o Callback(Serve(built.val, request).callback)
    /\ UNCHANGED <<config, built, pc, processed_event, position, evaluated, calls>>
    /\ UNCHANGED value

NextWebhook ==
    \/ ServerNew
    \/ ServerRequest

SpecWebhook == InitWebhook /\ [][NextWebhook]_vars

\* the webhooks of the configuration with the id of the path of the request
Addressed(request) ==
    {i \in DOMAIN config : request.method = "POST" /\ request.path = EventPath(config[i].id)}

RECURSIVE MatcherProcessFrom(_, _, _)
MatcherProcessFrom(rules, i, pe) ==
    IF i > Len(rules) THEN pe
    ELSE IF StopsAt(rules[i], RuleOutcome(rules[i], pe))
    THEN [pe EXCEPT !.matched = MapInsert(@, rules[i].name, RuleOutcome(rules[i], pe))]
    ELSE MatcherProcessFrom(
             rules, i + 1,
             [pe EXCEPT !.matched = MapInsert(@, rules[i].name, RuleOutcome(rules[i], pe))])

\* self.matcher.process(msg.event)
MatcherProcess(matcher, event) ==
    MatcherProcessFrom(matcher.rules, 1, ProcessedEventNew(event))

\* the messages of MatcherActor
EventMessages == [kind : {"EventMessage"}, event : WorkerEvents]
EventMessagesWithReply ==
    [kind : {"EventMessageWithReply"}, event : WorkerEvents,
     process_type : {"Full", "SkipActions"}]

\* mutant of DispatcherSend: the process type is not looked at
DispatcherSendAlways(process_type, pe) == <<[event |-> pe]>>

\* match msg.process_type: the ProcessedEventMessage the handler of
\* EventMessageWithReply sends to the dispatcher
DispatcherSend(process_type, pe) ==
    IF process_type = "Full" THEN <<[event |-> pe]>> ELSE <<>>

\* the unit value of Ok(())
Unit == <<>>

\* Handler<EventMessage>::handle
HandleEventMessage ==
    /\ pc = "ready"
    /\ Len(sent) < MaxSent
    /\ \E msg \in EventMessages :
           /\ input' = msg
           /\ sent' = Append(sent, [event |-> MatcherProcess(built.val, msg.event)])
           /\ output' = Ok(Unit)
    /\ UNCHANGED <<config, built, pc, processed_event, position, evaluated, calls>>
    /\ UNCHANGED value

\* Handler<EventMessageWithReply>::handle
HandleEventMessageWithReply ==
    /\ pc = "ready"
    /\ Len(sent) < MaxSent
    /\ \E msg \in EventMessagesWithReply :
           /\ input' = msg
           /\ sent' = sent \o DispatcherSend(msg.process_type,
                                             MatcherProcess(built.val, msg.event))
           /\ output' = Ok(MatcherProcess(built.val, msg.event))
    /\ UNCHANGED <<config, built, pc, processed_event, position, evaluated, calls>>
    /\ UNCHANGED value

NextActor ==
    \/ New
    \/ HandleEventMessage
    \/ HandleEventMessageWithReply

SpecActor == InitWorkers /\ [][NextActor]_vars

\* C27: the handler of an EventMessage sends exactly one
\* ProcessedEventMessage, for the event of the message, to the dispatcher
\* and returns Ok(()); the handler of an EventMessageWithReply returns the
\* ProcessedEvent of the event of the message, and sends exactly one
\* ProcessedEventMessage equal to what it returns when the process type is
\* Full and nothing when it is SkipActions.
C27_Dispatch ==
    [][pc = "ready" =>
          IF input'.kind = "EventMessage"
          THEN /\ output' = Ok(Unit)
               /\ Len(sent') = Len(sent) + 1
               /\ SubSeq(sent', 1, Len(sent)) = sent
               /\ sent'[Len(sent')].event.event = input'.event
          ELSE /\ output'.ok
               /\ output'.val.event = input'.event
               /\ sent' = IF input'.process_type = "Full"
                          THEN Append(sent, [event |-> output'.val])
                          ELSE sent]_vars

\* an EventMessageWithReply with SkipActions got its ProcessedEvent, with a
\* Matched rule, as reply and left the dispatcher with the one message of an
\* earlier handler
C27_Witness ==
    /\ pc = "ready"
    /\ input # <<>>
    /\ input.kind = "EventMessageWithReply"
    /\ input.process_type = "SkipActions"
    /\ output.ok
    /\ \E name \in DOMAIN output.val.matched : output.val.matched[name].status = "Matched"
    /\ Len(sent) = 1
    /\ sent[1].event # output.val

(***************************************************************************)
(* engine_api: the conversion of a MatcherConfig into its DTO.             *)
(***************************************************************************)
\* how many rules a Ruleset and how many nodes a Filter have at most
MaxNodes == 2

\* a value that serde_json::to_value cannot serialize
Unserializable(n) == [t |-> "Unserializable", v |-> <<n>>]
\* serde_json::Error
SerdeError(of) == [kind |-> "serde_json::Error", of |-> of]

\* serde_json::to_value of a Value
ToValue(v) ==
    IF v.t = "Unserializable" THEN Err(SerdeError(v))
    ELSE Ok([json |-> "String", s |-> v.v])

\* serde_json::to_value of a payload, of which at most one value is not
\* serializable
PayloadToValue(payload) ==
    IF \E k \in DOMAIN payload : ~ToValue(payload[k]).ok
    THEN ToValue(payload[CHOOSE k \in DOMAIN payload : ~ToValue(payload[k]).ok])
    ELSE Ok([json |-> "Object", fields |-> [k \in DOMAIN payload |-> ToValue(payload[k]).val]])

\* operator_into_dto
RECURSIVE OperatorIntoDto(_)
OperatorIntoDto(operator) ==
    IF operator.type \in {"And", "Or"}
    THEN Try(CollectResults([i \in DOMAIN operator.operators |->
                                OperatorIntoDto(operator.operators[i])]),
             LAMBDA operators : Ok([dto |-> operator.type, operators |-> operators]))
    ELSE IF operator.type = "Regex"
    THEN Ok([dto |-> "Regex", regex |-> operator.regex, target |-> operator.target])
    ELSE Try(ToValue(operator.first),
             LAMBDA first :
                 Try(ToValue(operator.second),
                     LAMBDA second :
                         Ok([dto |-> operator.type, first |-> first, second |-> second])))

\* Option<Operator>: map(operator_into_dto).transpose()
OptionOperatorIntoDto(option) ==
    IF option = None THEN Ok(None)
    ELSE Try(OperatorIntoDto(option.v), LAMBDA operator : Ok(Some(operator)))

\* extractor_into_dto and extractor_regex_into_dto
ExtractorIntoDto(extractor) ==
    [dto |-> "ExtractorDto", from |-> extractor.from,
     regex |-> [dto |-> "ExtractorRegexDto",
                group_match_idx |-> extractor.regex.group_match_idx,
                regex |-> extractor.regex.regex]]

\* constraint_into_dto
ConstraintIntoDto(constraint) ==
    Try(OptionOperatorIntoDto(constraint.where_operator),
        LAMBDA where_operator :
            Ok([dto |-> "ConstraintDto", where_operator |-> where_operator,
                with |-> [k \in DOMAIN constraint.with |->
                             ExtractorIntoDto(constraint.with[k])]]))

\* action_into_dto
ActionIntoDto(action) ==
    Try(PayloadToValue(action.payload),
        LAMBDA payload : Ok([dto |-> "ActionDto", id |-> action.id, payload |-> payload]))

\* rule_into_dto: the actions are converted before the constraint
RuleIntoDto(rule) ==
    Try(CollectResults([i \in DOMAIN rule.actions |-> ActionIntoDto(rule.actions[i])]),
        LAMBDA actions :
            Try(ConstraintIntoDto(rule.constraint),
                LAMBDA constraint :
                    Ok([dto |-> "RuleDto", active |-> rule.active, actions |-> actions,
                        constraint |-> constraint, description |-> rule.description,
                        do_continue |-> rule.do_continue, name |-> rule.name])))

\* filter_into_dto
FilterIntoDto(filter) ==
    Try(OptionOperatorIntoDto(filter.filter),
        LAMBDA operator :
            Ok([dto |-> "FilterDto", description |-> filter.description,
                filter |-> operator, active |-> filter.active]))

\* MatcherConfigDto::Ruleset { name, rules }
RulesetDto(name, rules) == [dto |-> "Ruleset", name |-> name, rules |-> rules]

\* mutant of FilterNodeDto: the child nodes are in the reverse order
FilterNodeDtoReversed(name, filter, nodes) ==
    [dto |-> "Filter", name |-> name, filter |-> filter,
     nodes |-> [i \in DOMAIN nodes |-> nodes[Len(nodes) + 1 - i]]]

\* MatcherConfigDto::Filter { name, filter, nodes }
FilterNodeDto(name, filter, nodes) ==
    [dto |-> "Filter", name |-> name, filter |-> filter, nodes |-> nodes]

\* matcher_config_into_dto
RECURSIVE MatcherConfigIntoDto(_)
MatcherConfigIntoDto(matcher_config) ==
    IF matcher_config.node = "Ruleset"
    THEN Try(CollectResults([i \in DOMAIN matcher_config.rules |->
                                RuleIntoDto(matcher_config.rules[i])]),
             LAMBDA rules : Ok(RulesetDto(matcher_config.name, rules)))
    ELSE Try(FilterIntoDto(matcher_config.filter),
             LAMBDA filter :
                 Try(CollectResults([i \in DOMAIN matcher_config.nodes |->
                                        MatcherConfigIntoDto(matcher_config.nodes[i])]),
                     LAMBDA nodes : Ok(FilterNodeDto(matcher_config.name, filter, nodes))))

\* the operators of the configurations to convert
DtoEqual(first, second) == [type |-> "Equal", first |-> first, second |-> second]
DtoRegex == [type |-> "Regex", regex |-> RE_ai, target |-> T_event_type]
DtoAnd(operators) == [type |-> "And", operators |-> operators]

\* config::rule::Rule
DtoRule(name, description, do_continue, active, where_operator, with, actions) ==
    [name |-> name, description |-> description, do_continue |-> do_continue,
     active |-> active, constraint |-> [where_operator |-> where_operator, with |-> with],
     actions |-> actions]

DtoAction(id, v) == [id |-> id, payload |-> [k \in {K_to} |-> v]]

\* rules that convert, a rule whose second action and whose constraint do
\* not, and a rule whose nested operator does not
DtoRules ==
    {DtoRule("rule_a", "first", TRUE, TRUE, None, EmptyMap, <<>>),
     DtoRule("rule_b", "second", FALSE, FALSE,
             Some(DtoEqual(Text(T_email), Text(T_sms))), Extract(RE_ai),
             <<DtoAction("notify", Text(T_hello))>>),
     DtoRule("rule_c", "third", TRUE, FALSE,
             Some(DtoEqual(Text(T_email), Unserializable("2"))), EmptyMap,
             <<DtoAction("notify", Text(T_hello)), DtoAction("log", Unserializable("1"))>>),
     DtoRule("rule_d", "fourth", FALSE, TRUE,
             Some(DtoAnd(<<DtoRegex, DtoEqual(Unserializable("3"), Text(T_sms))>>)),
             EmptyMap, <<>>)}

\* config::filter::Filter
DtoFilters ==
    {[description |-> "all", filter |-> None, active |-> TRUE],
     [description |-> "emails", filter |-> Some(DtoEqual(Text(T_email), Text(T_sms))),
      active |-> FALSE],
     [description |-> "broken", filter |-> Some(DtoEqual(Unserializable("4"), Text(T_sms))),
      active |-> TRUE]}

\* the sequences of lo .. MaxNodes elements of a set
NodeSeqs(S, lo) == UNION {[1 .. n -> S] : n \in lo .. MaxNodes}

Ruleset(name, rules) == [node |-> "Ruleset", name |-> name, rules |-> rules]
FilterNode(name, filter, nodes) ==
    [node |-> "Filter", name |-> name, filter |-> filter, nodes |-> nodes]

\* the trees: a Ruleset, a Filter over Rulesets, a Filter over Filters and
\* Rulesets
DtoRulesets == {Ruleset("ruleset", rules) : rules \in NodeSeqs(DtoRules, 0)}
LeafEmpty == Ruleset("empty", <<>>)
LeafOne == Ruleset("one", <<DtoRule("rule_a", "first", TRUE, TRUE, None, EmptyMap, <<>>)>>)
LeafBroken ==
    Ruleset("broken", <<DtoRule("rule_a", "first", TRUE, TRUE, None, EmptyMap, <<>>),
                        DtoRule("rule_d", "fourth", FALSE, TRUE,
                                Some(DtoAnd(<<DtoRegex,
                                              DtoEqual(Unserializable("3"), Text(T_sms))>>)),
                                EmptyMap, <<>>)>>)
DtoLeaves == {LeafEmpty, LeafOne, LeafBroken}
DtoInnerFilters ==
    {FilterNode("inner", filter, nodes) :
        filter \in DtoFilters, nodes \in NodeSeqs(DtoLeaves, 0)}
DtoOuterNodes ==
    DtoLeaves \cup
    {n \in DtoInnerFilters : n.nodes \in {<<LeafOne, LeafEmpty>>, <<LeafBroken>>}}
DtoOuterFilters ==
    {FilterNode("root", filter, nodes) :
        filter \in DtoFilters, nodes \in NodeSeqs(DtoOuterNodes, 1)}
DtoConfigs == DtoRulesets \cup DtoInnerFilters \cup DtoOuterFilters

InitDto ==
    /\ config = <<>>
    /\ built = NotBuilt
    /\ pc = "dto"
    /\ processed_event = ProcessedEventNew(Map(EmptyMap))
    /\ position = 0
    /\ evaluated = <<>>
    /\ calls = [w \in Workers |-> IdleCall]
    /\ sent = <<>>
    /\ input \in DtoConfigs
    /\ output = NotBuilt
    /\ value = None

\* matcher_config_into_dto(config) is called and returns
IntoDto ==
    /\ pc = "dto"
    /\ output' = MatcherConfigIntoDto(input)
    /\ pc' = "dto_done"
    /\ UNCHANGED <<config, built, processed_event, position, evaluated, calls>>
    /\ UNCHANGED <<input, value>>
    /\ UNCHANGED sent

NextDto == IntoDto

SpecDto == InitDto /\ [][NextDto]_vars

\* the operand values of an operator
RECURSIVE OperatorValues(_)
OperatorValues(operator) ==
    IF operator.type \in {"And", "Or"}
    THEN UNION {OperatorValues(operator.operators[i]) : i \in DOMAIN operator.operators}
    ELSE IF operator.type = "Regex" THEN {}
    ELSE {operator.first, operator.second}

OptionValues(option) == IF option = None THEN {} ELSE OperatorValues(option.v)

\* the values in the actions and in the constraint of a rule
RuleValues(rule) ==
    OptionValues(rule.constraint.where_operator)
    \cup UNION {{rule.actions[i].payload[k] : k \in DOMAIN rule.actions[i].payload} :
                   i \in DOMAIN rule.actions}

\* the values in the rules and in the filters of a tree
RECURSIVE TreeValues(_)
TreeValues(node) ==
    IF node.node = "Ruleset"
    THEN UNION {RuleValues(node.rules[i]) : i \in DOMAIN node.rules}
    ELSE OptionValues(node.filter.filter)
         \cup UNION {TreeValues(node.nodes[i]) : i \in DOMAIN node.nodes}

\* the errors of the elements of a tree that cannot be converted
TreeErrors(node) == {SerdeError(v) : v \in {u \in TreeValues(node) : u.t = "Unserializable"}}

\* the DTO has the shape of the configuration: the same kind of node and
\* name, as many rules with the same four fields in the same order, as many
\* child nodes in the same order, each of them of the same shape
RECURSIVE SameTree(_, _)
SameTree(node, dto) ==
    IF node.node = "Ruleset"
    THEN /\ dto.dto = "Ruleset"
         /\ dto.name = node.name
         /\ Len(dto.rules) = Len(node.rules)
         /\ \A i \in DOMAIN node.rules :
                /\ dto.rules[i].name = node.rules[i].name
                /\ dto.rules[i].active = node.rules[i].active
                /\ dto.rules[i].do_continue = node.rules[i].do_continue
                /\ dto.rules[i].description = node.rules[i].description
    ELSE /\ dto.dto = "Filter"
         /\ dto.name = node.name
         /\ Len(dto.nodes) = Len(node.nodes)
         /\ \A i \in DOMAIN node.nodes : SameTree(node.nodes[i], dto.nodes[i])

\* C28: matcher_config_into_dto preserves the tree.  When every element of
\* the configuration can be converted the result is Ok and the DTO has the
\* shape of the configuration (Ruleset to Ruleset, Filter to Filter, names,
\* number and order of rules and of child nodes at every depth, and name,
\* active, do_continue and description of each rule); when some nested
\* element cannot be converted the result is the error of such an element.
C28_TreePreserved ==
    pc = "dto_done" =>
        IF TreeErrors(input) = {}
        THEN output.ok /\ SameTree(input, output.val)
        ELSE ~output.ok /\ output.err \in TreeErrors(input)

\* a Filter over a Filter over two different Rulesets was converted
C28_Witness ==
    /\ pc = "dto_done"
    /\ output.ok
    /\ input.node = "Filter"
    /\ Len(input.nodes) = 2
    /\ input.nodes[1].node = "Filter"
    /\ Len(input.nodes[1].nodes) = 2
    /\ input.nodes[1].nodes[1] # input.nodes[1].nodes[2]
    /\ input.nodes[2].node = "Ruleset"

(***************************************************************************)
(* The walk of process over a tree of Filter and Ruleset nodes.            *)
(***************************************************************************)
\* the filter operator of a Filter node holds for the event; no operator
\* holds for every event
FilterHolds(filter, pe) ==
    \/ filter.filter = None
    \/ OperatorEvaluate(OperatorBuild(<<>>, filter.filter.v).val, pe)

\* the status of a Filter node
FilterStatus(filter, pe) ==
    IF ~filter.active THEN "Inactive"
    ELSE IF FilterHolds(filter, pe) THEN "Matched"
    ELSE "NotMatched"

\* the rules of a Ruleset node in declaration order: an inactive rule is
\* NotProcessed, a rule whose where is false is NotMatched, and a Matched
\* rule without do_continue ends the iteration
RECURSIVE ProcessRuleset(_, _, _)
ProcessRuleset(rules, i, pe) ==
    IF i > Len(rules) THEN <<>>
    ELSE IF ~rules[i].active
    THEN <<[name |-> rules[i].name, status |-> "NotProcessed"]>>
         \o ProcessRuleset(rules, i + 1, pe)
    ELSE IF ~FilterHolds([filter |-> rules[i].where], pe)
    THEN <<[name |-> rules[i].name, status |-> "NotMatched"]>>
         \o ProcessRuleset(rules, i + 1, pe)
    ELSE <<[name |-> rules[i].name, status |-> "Matched"]>>
         \o (IF rules[i].do_continue THEN ProcessRuleset(rules, i + 1, pe) ELSE <<>>)

\* the concatenation of the sequences of a sequence
RECURSIVE Flatten(_)
Flatten(seqs) == IF seqs = <<>> THEN <<>> ELSE Head(seqs) \o Flatten(Tail(seqs))

\* mutant of Gate: the children are walked whatever the status is
GateOpen(status, walked) == walked

\* the children of a Filter node are walked only when its status is Matched
Gate(status, walked) == IF status = "Matched" THEN walked ELSE <<>>

\* the walk of a node: the ProcessedNode, and the names of the nodes that
\* were evaluated, in the order of the walk
RECURSIVE ProcessNode(_, _)
ProcessNode(node, pe) ==
    IF node.node = "Ruleset"
    THEN [result |-> [node |-> "Ruleset", name |-> node.name,
                      rules |-> ProcessRuleset(node.rules, 1, pe)],
          evaluated |-> <<node.name>>]
    ELSE [result |->
              [node |-> "Filter", name |-> node.name,
               status |-> FilterStatus(node.filter, pe),
               nodes |-> [i \in DOMAIN Gate(FilterStatus(node.filter, pe), node.nodes) |->
                             ProcessNode(node.nodes[i], pe).result]],
          evaluated |->
              <<node.name>>
              \o Flatten([i \in DOMAIN Gate(FilterStatus(node.filter, pe), node.nodes) |->
                             ProcessNode(node.nodes[i], pe).evaluated])]

\* the Filter definitions: active or not, without operator or with a
\* comparison of the type of the event
FilterDefs ==
    [description : {"filter"}, active : BOOLEAN,
     filter : {None, Some(EqualType(T_email)), Some(EqualType(T_sms))}]

TreeRule(name, active, do_continue, where) ==
    [name |-> name, active |-> active, do_continue |-> do_continue, where |-> where]

\* three Rulesets and the trees of a root Filter over Rulesets and over an
\* inner Filter
Ruleset_1 ==
    Ruleset("ruleset_1", <<TreeRule("rule_1", TRUE, TRUE, Some(EqualType(T_sms))),
                           TreeRule("rule_2", TRUE, FALSE, None),
                           TreeRule("rule_3", TRUE, TRUE, None)>>)
Ruleset_2 ==
    Ruleset("ruleset_2", <<TreeRule("rule_4", FALSE, TRUE, None),
                           TreeRule("rule_5", TRUE, TRUE, Some(EqualType(T_email)))>>)
Ruleset_3 == Ruleset("ruleset_3", <<>>)
FilterTrees ==
    {FilterNode("root", filter, nodes) :
        filter \in FilterDefs,
        nodes \in {<<>>, <<Ruleset_1>>, <<Ruleset_1, Ruleset_2>>}
                  \cup {<<FilterNode("inner", inner, <<Ruleset_1>>), Ruleset_2>> :
                           inner \in FilterDefs}
                  \cup {<<FilterNode("inner", inner, <<Ruleset_1, Ruleset_3>>)>> :
                           inner \in FilterDefs}}

InitFilter ==
    /\ config \in FilterTrees
    /\ built = NotBuilt
    /\ pc = "tree"
    /\ processed_event = ProcessedEventNew(Map(EmptyMap))
    /\ position = 0
    /\ evaluated = <<>>
    /\ calls = [w \in Workers |-> IdleCall]
    /\ sent = <<>>
    /\ input = <<>>
    /\ output = NotBuilt
    /\ value = None

\* process(event) on the tree
ProcessTree ==
    /\ pc = "tree"
    /\ \E event \in WorkerEvents :
           /\ processed_event' = ProcessedEventNew(event)
           /\ output' = Ok(ProcessNode(config, ProcessedEventNew(event)).result)
           /\ evaluated' = ProcessNode(config, ProcessedEventNew(event)).evaluated
    /\ pc' = "tree_done"
    /\ UNCHANGED <<config, built, position, calls>>
    /\ UNCHANGED <<input, value>>
    /\ UNCHANGED sent

NextFilter == ProcessTree

SpecFilter == InitFilter /\ [][NextFilter]_vars

\* the names of the nodes and of the rules below a node
RECURSIVE Below(_)
Below(node) ==
    IF node.node = "Ruleset" THEN {node.rules[i].name : i \in DOMAIN node.rules}
    ELSE UNION {{node.nodes[i].name} \cup Below(node.nodes[i]) : i \in DOMAIN node.nodes}

\* the names that occur in a ProcessedNode
RECURSIVE ReportedNames(_)
ReportedNames(processed) ==
    {processed.name} \cup
    IF processed.node = "Ruleset"
    THEN {processed.rules[i].name : i \in DOMAIN processed.rules}
    ELSE UNION {ReportedNames(processed.nodes[i]) : i \in DOMAIN processed.nodes}

WasEvaluated(name) == \E i \in DOMAIN evaluated : evaluated[i] = name

\* the gating of one Filter node and of the Filter nodes below it
RECURSIVE Gated(_, _)
Gated(node, processed) ==
    IF node.node = "Ruleset" THEN processed.node = "Ruleset"
    ELSE /\ processed.node = "Filter"
         /\ IF ~node.filter.active
            THEN /\ processed.status = "Inactive"
                 /\ processed.nodes = <<>>
                 /\ \A name \in Below(node) :
                        ~WasEvaluated(name) /\ name \notin ReportedNames(output.val)
            ELSE IF node.filter.filter # None
                    /\ ~OperatorEvaluate(OperatorBuild(<<>>, node.filter.filter.v).val,
                                         processed_event)
            THEN /\ processed.status = "NotMatched"
                 /\ processed.nodes = <<>>
                 /\ \A name \in Below(node) :
                        ~WasEvaluated(name) /\ name \notin ReportedNames(output.val)
            ELSE /\ processed.status = "Matched"
                 /\ Len(processed.nodes) = Len(node.nodes)
                 /\ \A i \in DOMAIN node.nodes :
                        /\ WasEvaluated(node.nodes[i].name)
                        /\ processed.nodes[i].name = node.nodes[i].name
                        /\ Gated(node.nodes[i], processed.nodes[i])

\* C24: Filter gating.  An active Filter whose operator is false for the
\* event is reported NotMatched, and none of the nodes and rules below it is
\* evaluated or present in the output; an inactive Filter is reported
\* Inactive, with nothing below it evaluated; a Filter that matches is
\* reported Matched and every one of its children is evaluated and reported,
\* in order.
C24_FilterGating == pc = "tree_done" => Gated(config, output.val)

\* a root Filter matched, and its inner Filter, active with an operator that
\* is false for the event, is NotMatched next to a Ruleset that was
\* evaluated
C24_Witness ==
    /\ pc = "tree_done"
    /\ output.val.status = "Matched"
    /\ Len(output.val.nodes) = 2
    /\ config.nodes[1].node = "Filter"
    /\ config.nodes[1].filter.active
    /\ output.val.nodes[1].status = "NotMatched"
    /\ WasEvaluated(config.nodes[2].name)
    /\ ~WasEvaluated("ruleset_1")

====
